---- MODULE Spec2Model ----
(***************************************************************************)
(* State-machine model of the MPAT input pipeline:                         *)
(*   - download_streaming (resumable, retrying fetch),                     *)
(*   - the acquisition orchestrator main() and the operations it runs,     *)
(*   - prepare_source_inputs and the raster / vector preparers.            *)
(* Files live in one filesystem map fs; the remote resource is measured in *)
(* chunks (one unit = one chunk delivered by iter_content).                *)
(***************************************************************************)
EXTENDS Integers, Sequences, FiniteSets, TLC

VARIABLES
    fs,          \* filesystem: path -> [kind, data]
    remote,      \* size of the remote resource of the fetch, in chunks
    fpc,         \* position of download_streaming
    out_path,    \* download_streaming: destination path
    overwrite,   \* download_streaming: overwrite flag
    retries,     \* download_streaming: retry budget
    attempt,     \* download_streaming: loop variable
    resume_pos,  \* download_streaming: size of the sidecar read before the loop
    headers,     \* download_streaming: <<>> or <<n>> for Range: bytes=n-
    rpos,        \* next remote chunk the open response will deliver
    requests,    \* log of the requests issued: the headers of each
    waits,       \* log of the time.sleep() arguments
    ferr,        \* error raised by download_streaming, <<>> when none
    calls,       \* log of the GIS-engine operations of the current run
    arcenv,      \* arcpy.env.overwriteOutput
    p_overwrite, \* prepare_source_inputs: overwrite parameter
    ppc,         \* position of prepare_source_inputs
    pidx,        \* index of the raster block / vector job being processed
    src_raster,  \* the raster handed to prep_raster_to_target
    perr,        \* error that halted the run, <<>> when none
    pret,        \* value returned by the run, <<>> when none
    prev,        \* summaries of the earlier runs of prepare_source_inputs
    apc,         \* main(): the stage it is in
    aidx,        \* main(): index of the dataset of the stage being processed
    mstack,      \* _download_folder: the frames of the recursion
    dl,          \* datasets whose content was requested in the current run
    written,     \* paths written or removed in the current run
    aerr,        \* error that left main(), <<>> when none
    aprev,       \* summaries of the earlier runs of main()
    overwrite_git,  \* main(): overwrite
    overwrite_tif,  \* main(): overwrite_dem_tif
    overwrite_nc,   \* main(): overwrite_dem_nc
    gdal,        \* gdal_translate is on PATH
    ucall,       \* a direct call of one operation: <<>> before it, then its
                 \* name, arguments and the filesystem it started from
    uret,        \* value the direct call returned, <<>> when none
    uerr         \* error the direct call raised, <<>> when none

fetchVars == <<remote, fpc, out_path, overwrite, retries, attempt, resume_pos,
               headers, rpos, requests, waits, ferr>>

fetchParams == <<remote, out_path, overwrite, retries>>

prepVars == <<calls, arcenv, p_overwrite, ppc, pidx, src_raster, perr, pret, prev>>

acqParams == <<overwrite_git, overwrite_tif, overwrite_nc, gdal>>

acqVars == <<apc, aidx, mstack, dl, written, aerr, aprev, acqParams>>

unitVars == <<ucall, uret, uerr>>

vars == <<fs, fetchVars, prepVars, acqVars, unitVars>>

\* ------------------------------------------------------------------ bounds
MaxFull == 3
MaxRetries == 3
MaxRuns == 2
MaxFailAt == 6
DemSize == 2

\* ------------------------------------------------------------------ paths
\* A path is a sequence of names; a name is a sequence of tokens whose last
\* token is the suffix when it is one of SuffixTokens.
SuffixTokens == {".tif", ".nc", ".part", ".zip", ".gdb", ".gpkg"}

Last(s) == s[Len(s)]

Front(s) == SubSeq(s, 1, Len(s) - 1)

PathName(p) == Last(p)

PathParent(p) == Front(p)

PathJoin(p, name) == Append(p, name)

NameSuffix(n) == IF Len(n) > 1 /\ Last(n) \in SuffixTokens THEN <<Last(n)>> ELSE <<>>

NameStem(n) == IF Len(n) > 1 /\ Last(n) \in SuffixTokens THEN Front(n) ELSE n

PathSuffix(p) == NameSuffix(PathName(p))

PathStem(p) == NameStem(PathName(p))

with_suffix(p, suffix) == Append(PathParent(p), PathStem(p) \o suffix)

\* out_path.with_suffix(out_path.suffix + ".part")
part_path(p) == with_suffix(p, PathSuffix(p) \o <<".part">>)

\* ------------------------------------------------------------------ files
\* fs maps each existing path to its entry; a path outside DOMAIN fs does not
\* exist.  srs is the spatial-reference code a geodataset carries.
DataFile(d) == [kind |-> "file", data |-> d, srs |-> 0]

DirEntry == [kind |-> "dir", data |-> <<>>, srs |-> 0]

Has(f, p) == p \in DOMAIN f

Put(f, p, v) == [q \in DOMAIN f \cup {p} |-> IF q = p THEN v ELSE f[q]]

Del(f, p) == [q \in DOMAIN f \ {p} |-> f[q]]

NoFiles == [q \in {} |-> DirEntry]

\* Path.exists()
Exists(p) == Has(fs, p)

\* Path.stat().st_size
StatSize(p) == Len(fs[p].data)

\* The chunks from..to-1 of the remote resource, each named by its offset.
RemoteRange(from, to) == [i \in 1..(to - from) |-> from + i - 1]

RemoteData == RemoteRange(0, remote)

\* Content that is not the remote resource (a previous artifact).
StaleData == << -1 >>

\* ------------------------------------------------------------------ fetch
FetchOut == << <<"raw">>, <<"out", ".nc">> >>

tmp_path == part_path(out_path)

BackoffCap == 60

Min(a, b) == IF a < b THEN a ELSE b

\* The wait doubles without a cap.
BackoffUncapped(k) == 2 ^ k

\* line 136: wait = min(60, 2 ** attempt)
Backoff(k) == Min(BackoffCap, 2 ^ k)

\* range(1, retries): the last attempt of the budget is dropped
LoopHasNextShort(a) == a < retries

\* range(1, retries + 1): the loop runs while attempt <= retries
LoopHasNext(a) == a <= retries

\* The destination is not looked at: the fetch always runs.
FetchStartNoSkip ==
    /\ fpc = "start"
    /\ resume_pos' = (IF Exists(tmp_path) THEN StatSize(tmp_path) ELSE 0)
    /\ headers' = (IF resume_pos' > 0 /\ ~overwrite THEN <<resume_pos'>> ELSE <<>>)
    /\ attempt' = 1
    /\ fpc' = (IF LoopHasNext(1) THEN "request" ELSE "raise")
    /\ UNCHANGED <<prepVars, acqVars, unitVars, fs, fetchParams, rpos, requests, waits, ferr>>

\* lines 108-118 and the loop entry of line 120
FetchStart ==
    /\ fpc = "start"
    /\ IF Exists(out_path) /\ ~overwrite
       THEN /\ fpc' = "done"
            /\ UNCHANGED <<resume_pos, headers, attempt>>
       ELSE /\ resume_pos' = (IF Exists(tmp_path) THEN StatSize(tmp_path) ELSE 0)
            /\ headers' = (IF resume_pos' > 0 /\ ~overwrite THEN <<resume_pos'>> ELSE <<>>)
            /\ attempt' = 1
            /\ fpc' = (IF LoopHasNext(1) THEN "request" ELSE "raise")
    /\ UNCHANGED <<prepVars, acqVars, unitVars, fs, fetchParams, rpos, requests, waits, ferr>>

\* The byte range a request asks for can be served (otherwise HTTP 416).
Satisfiable(h) == IF h = <<>> THEN TRUE ELSE h[1] < remote

\* lines 122-123: the request; a transport error or an HTTP error status raises
FetchRequest ==
    /\ fpc = "request"
    /\ requests' = Append(requests, headers)
    /\ \/ /\ Satisfiable(headers)
          /\ fpc' = "open"
          /\ rpos' = (IF headers = <<>> THEN 0 ELSE headers[1])
       \/ /\ fpc' = "except"
          /\ UNCHANGED rpos
    /\ UNCHANGED <<prepVars, acqVars, unitVars, fs, fetchParams, attempt, resume_pos, headers, waits, ferr>>

\* line 125
OpenMode == IF headers # <<>> /\ resume_pos > 0 THEN "ab" ELSE "wb"

\* The previous destination is removed when the sidecar is opened.
OpenFileClearsDest(f, p, mode) ==
    LET g == IF mode = "ab" /\ Has(f, p) THEN f ELSE Put(f, p, DataFile(<<>>))
    IN  IF Has(g, out_path) THEN Del(g, out_path) ELSE g

\* open(path, mode): "wb" creates or truncates, "ab" creates or keeps
OpenFile(f, p, mode) == IF mode = "ab" /\ Has(f, p) THEN f ELSE Put(f, p, DataFile(<<>>))

\* line 126: open(tmp_path, mode)
FetchOpen ==
    /\ fpc = "open"
    /\ fs' = OpenFile(fs, tmp_path, OpenMode)
    /\ fpc' = "stream"
    /\ UNCHANGED <<prepVars, acqVars, unitVars, fetchParams, attempt, resume_pos, headers, rpos, requests, waits, ferr>>

\* The response is streamed straight into the destination.
ChunkTargetDest == out_path

\* The file a chunk of the response is written to (line 126: f is tmp_path).
ChunkTarget == tmp_path

\* f.write(chunk) on the file opened at path p
WriteChunk(f, p, chunk) ==
    Put(f, p, DataFile(Append(IF Has(f, p) THEN f[p].data ELSE <<>>, chunk)))

\* lines 127-129: one chunk of the response is written
FetchWriteChunk ==
    /\ fpc = "stream"
    /\ rpos < remote
    /\ fs' = WriteChunk(fs, ChunkTarget, rpos)
    /\ rpos' = rpos + 1
    /\ UNCHANGED <<prepVars, acqVars, unitVars, fetchParams, fpc, attempt, resume_pos, headers, requests, waits, ferr>>

\* line 127: the stream breaks before its end (iter_content raises)
FetchStreamError ==
    /\ fpc = "stream"
    /\ rpos < remote
    /\ fpc' = "except"
    /\ UNCHANGED <<prepVars, acqVars, unitVars, fs, fetchParams, attempt, resume_pos, headers, rpos, requests, waits, ferr>>

\* os.replace(src, dst)
Replace(f, src, dst) == Del(Put(f, dst, f[src]), src)

\* lines 131-133: the stream ended; the sidecar is renamed to the destination
FetchPromote ==
    /\ fpc = "stream"
    /\ rpos = remote
    /\ fs' = Replace(fs, tmp_path, out_path)
    /\ fpc' = "done"
    /\ UNCHANGED <<prepVars, acqVars, unitVars, fetchParams, attempt, resume_pos, headers, rpos, requests, waits, ferr>>

\* lines 135-139 and the loop step of line 120
FetchExcept ==
    /\ fpc = "except"
    /\ waits' = Append(waits, Backoff(attempt))
    /\ attempt' = attempt + 1
    /\ fpc' = (IF LoopHasNext(attempt + 1) THEN "request" ELSE "raise")
    /\ UNCHANGED <<prepVars, acqVars, unitVars, fs, fetchParams, resume_pos, headers, rpos, requests, ferr>>

\* line 141
FetchError == <<[kind |-> "RuntimeError", attempts |-> retries, name |-> PathName(out_path)]>>

FetchRaise ==
    /\ fpc = "raise"
    /\ ferr' = FetchError
    /\ fpc' = "raised"
    /\ UNCHANGED <<prepVars, acqVars, unitVars, fs, fetchParams, attempt, resume_pos, headers, rpos, requests, waits>>

\* The process is killed while download_streaming runs.
FetchKill ==
    /\ fpc \in {"start", "request", "open", "stream", "except", "raise"}
    /\ fpc' = "killed"
    /\ UNCHANGED <<prepVars, acqVars, unitVars, fs, fetchParams, attempt, resume_pos, headers, rpos, requests, waits, ferr>>

FetchStep ==
    \/ FetchStart
    \/ FetchRequest
    \/ FetchOpen
    \/ FetchWriteChunk
    \/ FetchStreamError
    \/ FetchPromote
    \/ FetchExcept
    \/ FetchRaise

\* ------------------------------------------------------------------ catalogs
TargetEpsg == 32604

AssumedEpsg == 4326

\* RASTER_KEYS
RASTER_KEYS == {"dem", "watertable", "rainfall", "slope"}

\* The raster blocks of prepare_source_inputs, in the order of the code.
RasterJobs ==
    << [key |-> "dem", src |-> "dem_dir", mosaic |-> TRUE,
        resampling |-> "BILINEAR", assume |-> <<AssumedEpsg>>],
       [key |-> "watertable", src |-> "watertable_dir", mosaic |-> TRUE,
        resampling |-> "NEAREST", assume |-> <<>>],
       [key |-> "slope", src |-> "slope_dir", mosaic |-> TRUE,
        resampling |-> "BILINEAR", assume |-> <<AssumedEpsg>>],
       [key |-> "rainfall", src |-> "rainfall", mosaic |-> FALSE,
        resampling |-> "BILINEAR", assume |-> <<>>] >>

vector_jobs ==
    << <<"parcels", "parcels">>, <<"cesspools", "cesspools">>,
       <<"coastline", "coastline">>, <<"sma", "sma">>, <<"streams", "streams">>,
       <<"wells_dom", "wells_dom">>, <<"wells_mun", "wells_mun">>,
       <<"buildings_fps", "buildings_fps">>, <<"soils", "soils">>,
       <<"flood_zones", "flood_zones">> >>

VectorKeys == {vector_jobs[i][1] : i \in 1..Len(vector_jobs)}

RawDir == << <<"raw">> >>

PreparedDir == << <<"prepared">> >>

tempspace == << <<"temp">> >>

\* The shared GeoPackage every vector key of the prepared catalog names.
Gpkg == PathJoin(PreparedDir, <<"vectors", ".gpkg">>)

source_inputs ==
    [k \in {"dem_dir", "watertable_dir", "slope_dir"} |-> PathJoin(RawDir, <<k>>)]
    @@ [k \in {"rainfall"} |-> PathJoin(RawDir, <<k, ".tif">>)]
    @@ [k \in VectorKeys |-> PathJoin(RawDir, <<k>>)]

prepared_outputs ==
    [k \in RASTER_KEYS |-> PathJoin(PreparedDir, <<k, ".tif">>)]
    @@ [k \in VectorKeys |-> Gpkg]

\* Rank of a tile name in the lexicographic order of sorted().
TileNames == {"a", "b", "c"}

LexRank == [t \in TileNames |-> CASE t = "a" -> 1 [] t = "b" -> 2 [] t = "c" -> 3]

TilePath(dir, t) == PathJoin(dir, <<t, ".tif">>)

\* ------------------------------------------------------------------ path helpers
\* mkdir(parents=True, exist_ok=True)
RECURSIVE ensure_dir(_, _)
ensure_dir(f, p) ==
    IF Len(p) = 0 \/ Has(f, p) THEN f
    ELSE Put(ensure_dir(f, PathParent(p)), p, DirEntry)

\* p.with_suffix("") / p.name
raster_subfolder_path(prepared_tif_path) ==
    PathJoin(with_suffix(prepared_tif_path, <<>>), PathName(prepared_tif_path))

\* prepared_folder / f"{raster_name}.tif"
raster_outpath_in_subfolder(prepared_folder, raster_name) ==
    PathJoin(prepared_folder, raster_name \o <<".tif">>)

path_exists(f, p) == Has(f, p)

\* The raster branch tests the flat catalog path instead of the subfolder.
prepared_exists_flat(f, key, path) ==
    Has(f, path)

\* With overwrite set the gate reports every output as missing.
prepared_exists_unless_overwrite(f, key, path) ==
    /\ ~p_overwrite
    /\ IF key \in RASTER_KEYS THEN Has(f, raster_subfolder_path(path))
       ELSE Has(f, path)

prepared_exists(f, key, path) ==
    IF key \in RASTER_KEYS THEN Has(f, raster_subfolder_path(path))
    ELSE Has(f, path)

\* ------------------------------------------------------------------ engine
\* The state a call threads through its statements: the filesystem, the
\* engine-call log, arcpy.env.overwriteOutput, the exception in flight (<<>>
\* when none), the value of the last expression, the locals src_epsg, work
\* (the dataset being projected) and out (the output path), and the engine
\* operation that fails in this call (failAt, counted from 1; 0 = none fails),
\* and the order in which the filesystem enumerates directory entries (enum).
Enter(failAt) ==
    [fs |-> fs, calls |-> calls, env |-> arcenv, err |-> <<>>, ret |-> <<>>,
     src_epsg |-> <<>>, work |-> <<>>, out |-> <<>>, n |-> 0, failAt |-> failAt,
     enum |-> LexRank]

\* The orders in which a directory can be enumerated: the rankings of the names.
Orders ==
    {o \in [TileNames -> 1..Cardinality(TileNames)] :
        \A t, u \in TileNames : t # u => o[t] # o[u]}

\* The call runs on a filesystem that enumerates directories in `order`.
Enumerate(E, order) == [E EXCEPT !.enum = order]

Call(op, src, dst) ==
    [op |-> op, src |-> src, dst |-> dst, inputs |-> <<>>, method |-> ""]

Raise(E, e) == IF E.err # <<>> THEN E ELSE [E EXCEPT !.err = <<e>>]

SetRet(E, v) == [E EXCEPT !.ret = v]

SetWork(E, v) == IF E.err # <<>> THEN E ELSE [E EXCEPT !.work = v]

GeoFile(srs) == [kind |-> "file", data |-> <<>>, srs |-> srs]

\* arcpy.env.overwriteOutput = overwrite; ensure_dir(dir)
Begin(E, ov, dir) ==
    IF E.err # <<>> THEN E ELSE [E EXCEPT !.env = ov, !.fs = ensure_dir(@, dir)]

MkDir(E, p) == IF E.err # <<>> THEN E ELSE [E EXCEPT !.fs = ensure_dir(@, p)]

\* if overwrite and Path(p).exists(): Path(p).unlink()
Unlink(E, p, ov) ==
    IF E.err = <<>> /\ ov /\ Has(E.fs, p) THEN [E EXCEPT !.fs = Del(@, p)] ELSE E

\* An engine operation that can fail: c is logged, then either the operation
\* raises or `done` (the state with its effect) is the result.
Fallible(E, c, done) ==
    IF E.err # <<>> THEN E
    ELSE IF E.n + 1 = E.failAt
         THEN [E EXCEPT !.n = @ + 1, !.calls = Append(@, c), !.err = <<"ExecuteError">>]
         ELSE [done EXCEPT !.n = E.n + 1, !.calls = Append(E.calls, c)]

\* An engine operation that reads src and writes dst: it raises when src is
\* missing or when dst exists and overwriteOutput is off.
Produce(E, c, src, dst, file) ==
    Fallible(E, c,
        IF ~Has(E.fs, src) \/ (Has(E.fs, dst) /\ ~E.env)
        THEN [E EXCEPT !.err = <<"ExecuteError">>]
        ELSE [E EXCEPT !.fs = Put(@, dst, file)])

\* arcpy.Exists
ArcExists(E, p) ==
    IF E.err # <<>> THEN E
    ELSE [E EXCEPT !.calls = Append(@, Call("Exists", p, <<>>)), !.ret = Has(E.fs, p)]

\* arcpy.management.Delete
ArcDelete(E, p) ==
    Fallible(E, Call("Delete", p, <<>>), [E EXCEPT !.fs = Del(@, p)])

DeleteIf(T, p) == IF T.err = <<>> /\ T.ret THEN ArcDelete(T, p) ELSE T

\* if overwrite and arcpy.Exists(p): arcpy.management.Delete(p)
DeleteIfExists(E, p, ov) == IF ov THEN DeleteIf(ArcExists(E, p), p) ELSE E

\* arcpy.Describe(dataset).spatialReference: <<>> when there is none
Describe(E, dataset) ==
    IF E.err # <<>> THEN E
    ELSE IF ~Has(E.fs, dataset)
         THEN [E EXCEPT !.calls = Append(@, Call("Describe", dataset, <<>>)),
                        !.err = <<"IOError">>]
         ELSE [E EXCEPT !.calls = Append(@, Call("Describe", dataset, <<>>)),
                        !.ret = E.fs[dataset].srs]

\* `code not in (None, 0)`
HasCode(sr) == sr # <<>> /\ sr # <<0>>

NoneIfNoCode(D) ==
    IF D.err # <<>> THEN D ELSE [D EXCEPT !.ret = IF HasCode(D.ret) THEN D.ret ELSE <<>>]

\* lines 79-84: None when there is no spatial reference or its code is 0
epsg_of_dataset(E, dataset) == NoneIfNoCode(Describe(E, dataset))

\* `if src_epsg is None: raise ValueError(...)`
CheckCrs(D) ==
    IF D.err # <<>> THEN D
    ELSE IF D.ret = <<>> THEN Raise(D, "ValueError")
    ELSE [D EXCEPT !.src_epsg = D.ret]

GdbPath(temp_dir) == PathJoin(temp_dir, <<"scratch_vectors", ".gdb">>)

CreateGdbIfAbsent(B, gdb_path) ==
    IF B.err = <<>> /\ ~B.ret
    THEN Fallible(B, Call("CreateFileGDB", <<>>, gdb_path),
                  [B EXCEPT !.fs = Put(@, gdb_path, DirEntry)])
    ELSE B

\* lines 96-108
ensure_scratch_gdb(E, temp_dir) ==
    SetRet(CreateGdbIfAbsent(ArcExists(MkDir(E, temp_dir), GdbPath(temp_dir)),
                             GdbPath(temp_dir)),
           GdbPath(temp_dir))

\* ------------------------------------------------------------------ vector prep
EpsgToken(e) ==
    IF e = TargetEpsg THEN "32604" ELSE IF e = AssumedEpsg THEN "4326" ELSE "other"

\* The database is created under temp_dir instead of at out_gpkg.
PV_CreateInTemp(B, out_gpkg) ==
    IF B.err = <<>> /\ ~B.ret
    THEN Fallible(B, Call("CreateSQLiteDatabase", <<>>, out_gpkg),
                  [B EXCEPT !.fs = Put(@, PathJoin(tempspace, PathName(out_gpkg)),
                                       GeoFile(<<>>))])
    ELSE B

\* lines 184-185
PV_Create(B, out_gpkg) ==
    IF B.err = <<>> /\ ~B.ret
    THEN Fallible(B, Call("CreateSQLiteDatabase", <<>>, out_gpkg),
                  [B EXCEPT !.fs = Put(@, out_gpkg, GeoFile(<<>>))])
    ELSE B

\* line 193
TmpFc(temp_dir, out_layer, target_epsg) ==
    PathJoin(GdbPath(temp_dir), <<out_layer, "_tmp_", EpsgToken(target_epsg)>>)

\* arcpy.management.Project
Project(U, src_fc, tmp_fc, target_epsg) ==
    Produce(U, Call("Project", src_fc, tmp_fc), src_fc, tmp_fc, GeoFile(<<target_epsg>>))

\* The projection writes straight into the layer of the shared GeoPackage.
PV_ProjectIntoGpkg(F, src_fc, out_layer, target_epsg, temp_dir, ov) ==
    IF F.err # <<>> THEN F
    ELSE IF F.src_epsg # <<target_epsg>>
    THEN SetWork(Project(DeleteIfExists(F, PathJoin(Gpkg, <<out_layer>>), ov),
                         src_fc, PathJoin(Gpkg, <<out_layer>>), target_epsg),
                 PathJoin(Gpkg, <<out_layer>>))
    ELSE SetWork(F, src_fc)

\* lines 191-203
PV_Project(F, src_fc, out_layer, target_epsg, temp_dir, ov) ==
    IF F.err # <<>> THEN F
    ELSE IF F.src_epsg # <<target_epsg>>
    THEN SetWork(Project(DeleteIfExists(ensure_scratch_gdb(F, temp_dir),
                                        TmpFc(temp_dir, out_layer, target_epsg), ov),
                         src_fc, TmpFc(temp_dir, out_layer, target_epsg), target_epsg),
                 TmpFc(temp_dir, out_layer, target_epsg))
    ELSE SetWork(F, src_fc)

gpkg_layer_path(gpkg_path, layer_name) == PathJoin(gpkg_path, <<layer_name>>)

\* arcpy.conversion.FeatureClassToFeatureClass(in_features=I.work, ...)
FeatureClassToFeatureClass(I, gpkg, out_name) ==
    IF I.err # <<>> THEN I
    ELSE Produce(I, Call("FeatureClassToFeatureClass", I.work, PathJoin(gpkg, <<out_name>>)),
                 I.work, PathJoin(gpkg, <<out_name>>),
                 GeoFile(IF Has(I.fs, I.work) THEN I.fs[I.work].srs ELSE <<>>))

\* lines 205-214
PV_Copy(G, out_gpkg, out_layer, ov) ==
    SetRet(FeatureClassToFeatureClass(
               DeleteIfExists(G, gpkg_layer_path(out_gpkg, out_layer), ov),
               out_gpkg, out_layer),
           gpkg_layer_path(out_gpkg, out_layer))

\* lines 181-214
prep_vector_to_gpkg(E, src_fc, out_gpkg, out_layer, target_epsg, temp_dir, ov) ==
    PV_Copy(PV_Project(CheckCrs(epsg_of_dataset(
                PV_Create(ArcExists(Begin(E, ov, PathParent(out_gpkg)), out_gpkg), out_gpkg),
                src_fc)),
            src_fc, out_layer, target_epsg, temp_dir, ov),
        out_gpkg, out_layer, ov)

\* ------------------------------------------------------------------ raster prep
\* line 233
DefinedTmp(temp_dir, raster_path) ==
    PathJoin(temp_dir, PathStem(raster_path) \o <<"_defined", ".tif">>)

\* arcpy.management.CopyRaster
CopyRaster(E, src, dst) ==
    IF E.err # <<>> THEN E
    ELSE Produce(E, Call("CopyRaster", src, dst), src, dst,
                 GeoFile(IF Has(E.fs, src) THEN E.fs[src].srs ELSE <<>>))

\* arcpy.management.DefineProjection: stamps the metadata of the dataset
DefineProjection(E, ds, epsg) ==
    Fallible(E, [Call("DefineProjection", <<>>, ds) EXCEPT !.method = EpsgToken(epsg)],
             [E EXCEPT !.fs = Put(@, ds, GeoFile(<<epsg>>))])

\* The assumed EPSG is stamped on the input raster itself.
DP_BranchInPlace(B, raster_path, assumed_epsg, tmp, ov) ==
    IF B.err # <<>> THEN B
    ELSE IF B.ret # <<>> THEN SetRet(B, raster_path)
    ELSE SetRet(DefineProjection(B, raster_path, assumed_epsg), raster_path)

\* lines 231-238
DP_Branch(B, raster_path, assumed_epsg, tmp, ov) ==
    IF B.err # <<>> THEN B
    ELSE IF B.ret # <<>> THEN SetRet(B, raster_path)
    ELSE SetRet(DefineProjection(CopyRaster(Unlink(B, tmp, ov), raster_path, tmp),
                                 tmp, assumed_epsg),
                tmp)

\* lines 229-238
define_projection_if_missing(E, raster_path, assumed_epsg, temp_dir, ov) ==
    DP_Branch(epsg_of_dataset(Begin(E, ov, temp_dir), raster_path),
              raster_path, assumed_epsg, DefinedTmp(temp_dir, raster_path), ov)

\* The arguments the call of line 254 passes to raster_outpath_in_subfolder.
OutpathArgs(prepared_tif) == <<prepared_tif>>

\* Number of required positional parameters of raster_outpath_in_subfolder.
OutpathArity == 2

\* line 254: a call with a missing positional argument raises TypeError
PR_Outpath(A, args) ==
    IF A.err # <<>> THEN A
    ELSE IF Len(args) # OutpathArity THEN Raise(A, "TypeError")
    ELSE [A EXCEPT !.fs = ensure_dir(@, args[1]),
                   !.out = raster_outpath_in_subfolder(args[1], args[2])]

SetWorkFromRet(E) == IF E.err # <<>> THEN E ELSE [E EXCEPT !.work = E.ret]

\* lines 256-264
PR_Define(B, src, assume, temp_dir, ov) ==
    IF B.err # <<>> THEN B
    ELSE IF assume # <<>>
    THEN SetWorkFromRet(define_projection_if_missing(B, src, assume[1], temp_dir, ov))
    ELSE SetWork(B, src)

EpsgOfWork(C) == IF C.err # <<>> THEN C ELSE epsg_of_dataset(C, C.work)

\* arcpy.management.ProjectRaster
ProjectRaster(F, target_epsg, resampling) ==
    Produce(F, [Call("ProjectRaster", F.work, F.out) EXCEPT !.method = resampling],
            F.work, F.out, GeoFile(<<target_epsg>>))

\* lines 270-279
PR_Write(F, target_epsg, resampling) ==
    IF F.err # <<>> THEN F
    ELSE IF F.src_epsg # <<target_epsg>>
    THEN SetRet(ProjectRaster(F, target_epsg, resampling), F.out)
    ELSE SetRet(CopyRaster(F, F.work, F.out), F.out)

\* lines 252-279
prep_raster_to_target(E, src, prepared_tif, target_epsg, temp_dir, resampling, assume, ov) ==
    PR_Write(CheckCrs(EpsgOfWork(
                 PR_Define(PR_Outpath(Begin(E, ov, temp_dir), OutpathArgs(prepared_tif)),
                           src, assume, temp_dir, ov))),
             target_epsg, resampling)

\* ------------------------------------------------------------------ mosaic
\* Path(raster_dir).glob("*.tif"): the .tif files directly inside raster_dir
GlobTif(f, raster_dir) ==
    {p \in DOMAIN f : /\ Len(p) = Len(raster_dir) + 1
                      /\ PathParent(p) = raster_dir
                      /\ PathSuffix(p) = <<".tif">>
                      /\ f[p].kind = "file"}

PathRank(p) == LexRank[PathName(p)[1]]

\* sorted(): ascending sequence of the paths of S
RECURSIVE Sorted(_)
Sorted(S) ==
    IF S = {} THEN <<>>
    ELSE LET m == CHOOSE x \in S : \A y \in S : PathRank(x) <= PathRank(y)
         IN  <<m>> \o Sorted(S \ {m})

\* arcpy.management.MosaicToNewRaster: the output takes the spatial reference
\* of the first input
MosaicToNewRaster(E, tif_paths, out_mosaic) ==
    IF E.err # <<>> THEN E
    ELSE Produce(E, [Call("MosaicToNewRaster", <<>>, out_mosaic) EXCEPT
                        !.inputs = tif_paths, !.method = "FIRST"],
                 tif_paths[1], out_mosaic, GeoFile(E.fs[tif_paths[1]].srs))

\* The empty list is detected only after the output location was prepared.
M_RunLateCheck(A, tif_paths, out_mosaic, ov) ==
    IF tif_paths = <<>>
    THEN Raise(Unlink(MkDir(A, PathParent(out_mosaic)), out_mosaic, ov), "FileNotFoundError")
    ELSE MosaicToNewRaster(Unlink(MkDir(A, PathParent(out_mosaic)), out_mosaic, ov),
                           tif_paths, out_mosaic)

\* lines 295-313
M_Run(A, tif_paths, out_mosaic, ov) ==
    IF tif_paths = <<>> THEN Raise(A, "FileNotFoundError")
    ELSE MosaicToNewRaster(Unlink(MkDir(A, PathParent(out_mosaic)), out_mosaic, ov),
                           tif_paths, out_mosaic)

\* The paths of S in the order the filesystem enumerates them.
RECURSIVE Listed(_, _)
Listed(S, enum) ==
    IF S = {} THEN <<>>
    ELSE LET m == CHOOSE x \in S :
                     \A y \in S : enum[PathName(x)[1]] <= enum[PathName(y)[1]]
         IN  <<m>> \o Listed(S \ {m}, enum)

\* Path(raster_dir).glob("*.tif"), as the sequence the iteration yields
glob(E, raster_dir) == Listed(GlobTif(E.fs, raster_dir), E.enum)

\* The list is handed on in the order of the enumeration.
unsorted(s) == s

\* sorted(list): the elements of s in ascending order
sorted(s) == Sorted({s[i] : i \in DOMAIN s})

\* lines 293-314
mosaic_dir_to_raster(E, raster_dir, out_mosaic, ov) ==
    SetRet(M_Run([E EXCEPT !.env = ov], sorted(glob(E, raster_dir)), out_mosaic, ov),
           out_mosaic)

\* ------------------------------------------------------------------ orchestrator
\* line 334
missing_items(f) ==
    {k \in DOMAIN prepared_outputs : ~prepared_exists(f, k, prepared_outputs[k])}

\* The effect of a call on the state of the run.
Commit(R) ==
    /\ fs' = R.fs
    /\ calls' = R.calls
    /\ arcenv' = R.env

\* The position after raster block i / after vector job i.
AfterRaster(i) == IF i < Len(RasterJobs) THEN <<"raster", i + 1>> ELSE <<"vector", 1>>

AfterVector(i) == IF i < Len(vector_jobs) THEN <<"vector", i + 1>> ELSE <<"return", 0>>

Goto(pos) == ppc' = pos[1] /\ pidx' = pos[2]

\* lines 330-342: the missing set and the fast no-op path
PrepStart ==
    /\ ppc = "start"
    /\ fs' = ensure_dir(fs, tempspace)
    /\ IF missing_items(fs) = {}
       THEN /\ pret' = <<prepared_outputs>>
            /\ Goto(<<"returned", 0>>)
       ELSE /\ pret' = pret
            /\ Goto(<<"raster", 1>>)
    /\ UNCHANGED <<calls, arcenv, p_overwrite, src_raster, perr, prev, fetchVars, acqVars, unitVars>>

\* The run is halted by exception e, raised in the call of `at`.
Halt(e, at) ==
    /\ perr' = <<[kind |-> e[1], at |-> at, idx |-> pidx]>>
    /\ Goto(<<"raised", pidx>>)

MosaicTmp(key) == PathJoin(tempspace, <<key, "_mosaic_tmp", ".tif">>)

\* mosaic_dir_to_raster runs one engine operation: it fails or it does not.
MosaicFailAt(fails) == IF fails THEN 1 ELSE 0

\* lines 350-362, 377-389, 403-415, 430-434: the gate of a raster block and,
\* for a tiled layer, its mosaic
PrepRasterGate ==
    /\ ppc = "raster"
    /\ LET job == RasterJobs[pidx]
       IN  IF prepared_exists(fs, job.key, prepared_outputs[job.key])
           THEN /\ Goto(AfterRaster(pidx))
                /\ UNCHANGED <<fs, calls, arcenv, src_raster, perr>>
           ELSE IF job.mosaic
           THEN \E fails \in BOOLEAN, order \in Orders :
                   LET R == mosaic_dir_to_raster(Enumerate(Enter(MosaicFailAt(fails)), order),
                                                 source_inputs[job.src],
                                                 MosaicTmp(job.key), p_overwrite)
                   IN  /\ Commit(R)
                       /\ IF R.err # <<>>
                          THEN Halt(R.err, "mosaic_dir_to_raster") /\ UNCHANGED src_raster
                          ELSE /\ src_raster' = R.ret
                               /\ Goto(<<"prep", pidx>>)
                               /\ UNCHANGED perr
           ELSE /\ src_raster' = source_inputs[job.src]
                /\ Goto(<<"prep", pidx>>)
                /\ UNCHANGED <<fs, calls, arcenv, perr>>
    /\ UNCHANGED <<p_overwrite, pret, prev, fetchVars, acqVars, unitVars>>

\* lines 363-374, 390-400, 416-427, 434-444: prep_raster_to_target of a block
PrepRasterTarget ==
    /\ ppc = "prep"
    /\ LET job == RasterJobs[pidx]
       IN  \E failAt \in 0..MaxFailAt :
              LET R == prep_raster_to_target(Enter(failAt), src_raster,
                           prepared_outputs[job.key], TargetEpsg, tempspace,
                           job.resampling, job.assume, p_overwrite)
              IN  /\ Commit(R)
                  /\ IF R.err # <<>>
                     THEN Halt(R.err, "prep_raster_to_target")
                     ELSE Goto(AfterRaster(pidx)) /\ UNCHANGED perr
    /\ UNCHANGED <<p_overwrite, src_raster, pret, prev, fetchVars, acqVars, unitVars>>

\* lines 464-480: one iteration of the vector loop
PrepVectorJob ==
    /\ ppc = "vector"
    /\ LET key == vector_jobs[pidx][1]
           layer_name == vector_jobs[pidx][2]
           out_gpkg == prepared_outputs[key]
       IN  IF path_exists(fs, out_gpkg)
           THEN /\ Goto(AfterVector(pidx))
                /\ UNCHANGED <<fs, calls, arcenv, perr>>
           ELSE \E failAt \in 0..MaxFailAt :
                   LET R == prep_vector_to_gpkg(Enter(failAt), source_inputs[key],
                                out_gpkg, layer_name, TargetEpsg, tempspace, p_overwrite)
                   IN  /\ Commit(R)
                       /\ IF R.err # <<>>
                          THEN Halt(R.err, "prep_vector_to_gpkg")
                          ELSE Goto(AfterVector(pidx)) /\ UNCHANGED perr
    /\ UNCHANGED <<p_overwrite, src_raster, pret, prev, fetchVars, acqVars, unitVars>>

\* lines 482-484
PrepReturn ==
    /\ ppc = "return"
    /\ pret' = <<prepared_outputs>>
    /\ Goto(<<"returned", 0>>)
    /\ UNCHANGED <<fs, calls, arcenv, p_overwrite, src_raster, perr, prev, fetchVars, acqVars, unitVars>>

\* The caller runs prepare_source_inputs again with the same arguments.
PrepRerun ==
    /\ ppc \in {"returned", "raised"}
    /\ Len(prev) + 1 < MaxRuns
    /\ prev' = Append(prev, [outcome |-> ppc, ret |-> pret, err |-> perr,
                             ncalls |-> Len(calls), fs |-> fs])
    /\ calls' = <<>>
    /\ perr' = <<>>
    /\ pret' = <<>>
    /\ src_raster' = <<>>
    /\ Goto(<<"start", 0>>)
    /\ UNCHANGED <<fs, arcenv, p_overwrite, fetchVars, acqVars, unitVars>>

\* ------------------------------------------------------------------ acquisition
\* The catalogs main() is run with.
zip_sources == <<"coastline_hi_op", "sma_hi_op">>

github_datasets == <<"slope_hi_hcpt">>

pacioos_dem_dataset_ids == <<"usgs_dem_10m_kahoolawe", "usgs_dem_10m_lanai">>

pacioos_dem_dir == "dem_hi_pacioos"

\* download_streaming's default retry budget
DefaultRetries == 8

\* Bodies a whole-file GET can deliver: the content, or an error page.
GoodBody == <<1>>

ErrorBody == << -2 >>

\* The remote directory tree the Contents API lists: per listing, its items.
Listing ==
    [root |-> << [name |-> <<"f1", ".tif">>, type |-> "file", url |-> ""],
                 [name |-> <<"sub">>, type |-> "dir", url |-> "sub"],
                 [name |-> <<"link">>, type |-> "symlink", url |-> ""] >>,
     sub  |-> << [name |-> <<"f2", ".tif">>, type |-> "file", url |-> ""] >>]

ZipFolder(id) == PathJoin(RawDir, <<id>>)

ZipPath(id) == PathJoin(ZipFolder(id), <<id, ".zip">>)

\* The entry a valid archive of dataset id holds.
ZipMember(id) == PathJoin(ZipFolder(id), <<id, ".shp">>)

\* lines 16-38: the disk after download_and_unzip, by outcome of its steps
download_and_unzip(f, id, outcome) ==
    IF outcome = "http_error" THEN ensure_dir(f, ZipFolder(id))
    ELSE IF outcome = "bad_zip"
    THEN Put(ensure_dir(f, ZipFolder(id)), ZipPath(id), DataFile(ErrorBody))
    ELSE Del(Put(Put(ensure_dir(f, ZipFolder(id)), ZipPath(id), DataFile(GoodBody)),
                 ZipMember(id), DataFile(GoodBody)),
             ZipPath(id))

\* The paths download_and_unzip writes, by outcome.
ZipWrites(id, outcome) ==
    IF outcome = "http_error" THEN {}
    ELSE IF outcome = "bad_zip" THEN {ZipPath(id)}
    ELSE {ZipPath(id), ZipMember(id)}

\* The error is recorded and the loop of the stage carries on.
AcqRaiseAndContinue(e) ==
    /\ apc' = apc
    /\ aerr' = <<e>>

\* An exception leaves main(): nothing in lines 233-266 catches it.
AcqRaise(e) ==
    /\ apc' = "raised"
    /\ aerr' = <<e>>

\* After the last item of a stage the next stage begins.
AcqAfter(stage, i, n) ==
    IF i < n THEN <<stage, i + 1>>
    ELSE IF stage = "zip" THEN <<"git", 1>>
    ELSE IF stage = "git" THEN <<"dem", 1>>
    ELSE <<"done", 0>>

AcqGoto(pos) == apc' = pos[1] /\ aidx' = pos[2]

\* lines 248-249: one iteration of the ZIP loop
ZipAcquire ==
    /\ apc = "zip"
    /\ \E outcome \in {"ok", "http_error", "bad_zip"} :
          /\ fs' = download_and_unzip(fs, zip_sources[aidx], outcome)
          /\ written' = written \cup ZipWrites(zip_sources[aidx], outcome)
          /\ dl' = IF outcome = "http_error" THEN dl ELSE dl \cup {zip_sources[aidx]}
          /\ IF outcome = "ok"
             THEN AcqGoto(AcqAfter("zip", aidx, Len(zip_sources))) /\ UNCHANGED aerr
             ELSE AcqRaise(IF outcome = "bad_zip" THEN "BadZipFile" ELSE "HTTPError")
                  /\ UNCHANGED aidx
    /\ UNCHANGED <<mstack, acqParams, aprev, fetchVars, prepVars, unitVars>>

GitFolder(id) == PathJoin(RawDir, <<id>>)

\* Every listing is mirrored into the folder of the dataset itself.
FrameFlat(node, dest) == [node |-> node, dest |-> GitFolder(github_datasets[1]), i |-> 1]

\* A call of _download_folder(url, dest): the listing, the folder, the loop index.
Frame(node, dest) == [node |-> node, dest |-> dest, i |-> 1]

\* lines 53-64 and 84: mkdir, then _download_folder(api_url, out_folder) asks
\* for the listing of the root
MirrorStart ==
    /\ apc = "git"
    /\ mstack = <<>>
    /\ fs' = ensure_dir(fs, GitFolder(github_datasets[aidx]))
    /\ \/ /\ mstack' = <<Frame("root", GitFolder(github_datasets[aidx]))>>
          /\ UNCHANGED <<apc, aerr>>
       \/ /\ AcqRaise("HTTPError")
          /\ UNCHANGED mstack
    /\ UNCHANGED <<aidx, dl, written, acqParams, aprev, fetchVars, prepVars, unitVars>>

Top == mstack[Len(mstack)]

TopItem == Listing[Top.node][Top.i]

\* The stack with the index of the top frame advanced.
\* The loop of the listing ends with the entry just handled.
AdvancedToEnd == [mstack EXCEPT ![Len(mstack)].i = Len(Listing[Top.node]) + 1]

Advanced == [mstack EXCEPT ![Len(mstack)].i = @ + 1]

\* The body a file entry's GET delivers is written whatever the status.
FileBodies == {GoodBody, ErrorBody}

\* lines 66-82: one item of the listing of the top frame
MirrorItem ==
    /\ apc = "git"
    /\ mstack # <<>>
    /\ Top.i <= Len(Listing[Top.node])
    /\ LET dst == PathJoin(Top.dest, TopItem.name)
       IN  IF TopItem.type = "file"
           THEN IF Has(fs, dst) /\ ~overwrite_git
                THEN /\ mstack' = Advanced
                     /\ UNCHANGED <<fs, dl, written, apc, aerr>>
                ELSE \/ \E body \in FileBodies :
                           /\ fs' = Put(fs, dst, DataFile(body))
                           /\ dl' = dl \cup {github_datasets[aidx]}
                           /\ written' = written \cup {dst}
                           /\ mstack' = Advanced
                           /\ UNCHANGED <<apc, aerr>>
                     \/ /\ AcqRaise("ConnectionError")
                        /\ UNCHANGED <<fs, dl, written, mstack>>
           ELSE IF TopItem.type = "dir"
           THEN /\ fs' = ensure_dir(fs, dst)
                /\ \/ /\ mstack' = Append(Advanced, Frame(TopItem.url, dst))
                      /\ UNCHANGED <<apc, aerr>>
                   \/ /\ AcqRaise("HTTPError")
                      /\ UNCHANGED mstack
                /\ UNCHANGED <<dl, written>>
           ELSE /\ mstack' = Advanced
                /\ UNCHANGED <<fs, dl, written, apc, aerr>>
    /\ UNCHANGED <<aidx, acqParams, aprev, fetchVars, prepVars, unitVars>>

\* The loop of a listing is exhausted: _download_folder returns; with the
\* root listing done (lines 84-88) the next dataset or stage follows.
MirrorReturn ==
    /\ apc = "git"
    /\ mstack # <<>>
    /\ Top.i > Len(Listing[Top.node])
    /\ mstack' = SubSeq(mstack, 1, Len(mstack) - 1)
    /\ IF Len(mstack) = 1
       THEN AcqGoto(AcqAfter("git", aidx, Len(github_datasets)))
       ELSE UNCHANGED <<apc, aidx>>
    /\ UNCHANGED <<fs, dl, written, aerr, acqParams, aprev, fetchVars, prepVars, unitVars>>

DemDir == PathJoin(RawDir, <<pacioos_dem_dir>>)

NcPath(ds) == PathJoin(DemDir, <<ds, ".nc">>)

TifPath(ds) == PathJoin(DemDir, <<ds, ".tif">>)

\* if p.exists(): p.unlink()
UnlinkIfExists(f, p) == IF Has(f, p) THEN Del(f, p) ELSE f

\* lines 217-224: the cleanup of the skip branch
DemCleanup(f, nc_path) == UnlinkIfExists(UnlinkIfExists(f, part_path(nc_path)), nc_path)

\* lines 204-226: the head of the DEM loop: the skip branch, or the call of
\* download_streaming(url, nc_path, overwrite=overwrite_nc)
DemLoop ==
    /\ apc = "dem"
    /\ fpc = "idle"
    /\ LET ds == pacioos_dem_dataset_ids[aidx]
       IN  IF Has(fs, TifPath(ds)) /\ ~overwrite_tif
           THEN /\ fs' = DemCleanup(ensure_dir(fs, DemDir), NcPath(ds))
                /\ written' = written \cup
                      {p \in {NcPath(ds), part_path(NcPath(ds))} : Has(fs, p)}
                /\ AcqGoto(AcqAfter("dem", aidx, Len(pacioos_dem_dataset_ids)))
                /\ UNCHANGED fetchVars
           ELSE /\ fs' = ensure_dir(fs, DemDir)
                /\ fpc' = "start"
                /\ out_path' = NcPath(ds)
                /\ overwrite' = overwrite_nc
                /\ retries' = DefaultRetries
                /\ remote' = DemSize
                /\ UNCHANGED <<attempt, resume_pos, headers, rpos, requests, waits, ferr>>
                /\ UNCHANGED <<apc, aidx, written>>
    /\ UNCHANGED <<dl, aerr, mstack, acqParams, aprev, prepVars, unitVars>>

\* The source file is looked for before the conversion tool.
ConvertOutcomeNcFirst(f, nc_path, tif_path, ov_tif, have_gdal, run_ok) ==
    IF Has(f, tif_path) /\ ~ov_tif THEN "skip"
    ELSE IF ~Has(f, nc_path) THEN "no_nc"
    ELSE IF ~have_gdal THEN "no_gdal"
    ELSE IF ~run_ok THEN "failed"
    ELSE "ok"

\* lines 154-187: the disk after nc_to_geotiff_and_delete, by outcome
\* ("skip", "no_gdal", "no_nc", "failed", "ok")
ConvertOutcome(f, nc_path, tif_path, ov_tif, have_gdal, run_ok) ==
    IF Has(f, tif_path) /\ ~ov_tif THEN "skip"
    ELSE IF ~have_gdal THEN "no_gdal"
    ELSE IF ~Has(f, nc_path) THEN "no_nc"
    ELSE IF ~run_ok THEN "failed"
    ELSE "ok"

\* The NetCDF is deleted before the conversion runs.
nc_delete_first(f, nc_path, tif_path, outcome) ==
    IF outcome = "skip" THEN UnlinkIfExists(UnlinkIfExists(f, nc_path), part_path(nc_path))
    ELSE IF outcome = "ok" THEN Del(Put(f, tif_path, DataFile(<<f[nc_path].data>>)), nc_path)
    ELSE IF outcome = "failed" THEN Del(f, nc_path)
    ELSE f

\* The skip branch leaves the sidecar of the NetCDF in place.
nc_skip_keeps_part(f, nc_path, tif_path, outcome) ==
    IF outcome = "skip" THEN UnlinkIfExists(f, nc_path)
    ELSE IF outcome = "ok" THEN Del(Put(f, tif_path, DataFile(<<f[nc_path].data>>)), nc_path)
    ELSE f

nc_to_geotiff_and_delete(f, nc_path, tif_path, outcome) ==
    IF outcome = "skip" THEN UnlinkIfExists(UnlinkIfExists(f, nc_path), part_path(nc_path))
    ELSE IF outcome = "ok"
    THEN Del(Put(f, tif_path, DataFile(<<f[nc_path].data>>)), nc_path)
    ELSE f

\* The fetch state once download_streaming has returned to its caller.
FetchReset ==
    /\ remote' = 0
    /\ fpc' = "idle"
    /\ out_path' = <<>>
    /\ overwrite' = FALSE
    /\ retries' = 0
    /\ attempt' = 0
    /\ resume_pos' = 0
    /\ headers' = <<>>
    /\ rpos' = 0
    /\ requests' = <<>>
    /\ waits' = <<>>
    /\ ferr' = <<>>

\* line 227: download_streaming returned; nc_to_geotiff_and_delete runs
DemConvert ==
    /\ apc = "dem"
    /\ fpc = "done"
    /\ \E run_ok \in BOOLEAN :
          LET ds == pacioos_dem_dataset_ids[aidx]
              o == ConvertOutcome(fs, NcPath(ds), TifPath(ds), overwrite_tif, gdal, run_ok)
          IN  /\ fs' = nc_to_geotiff_and_delete(fs, NcPath(ds), TifPath(ds), o)
              /\ written' = written
                    \cup (IF requests # <<>> THEN {NcPath(ds)} ELSE {})
                    \cup (IF o = "ok" THEN {TifPath(ds), NcPath(ds)} ELSE {})
              /\ dl' = IF requests # <<>> THEN dl \cup {ds} ELSE dl
              /\ IF o \in {"ok", "skip"}
                 THEN AcqGoto(AcqAfter("dem", aidx, Len(pacioos_dem_dataset_ids)))
                      /\ UNCHANGED aerr
                 ELSE AcqRaise(IF o = "failed" THEN "CalledProcessError" ELSE "RuntimeError")
                      /\ UNCHANGED aidx
    /\ FetchReset
    /\ UNCHANGED <<mstack, acqParams, aprev, prepVars, unitVars>>

\* line 226: download_streaming raised; the error leaves main()
DemFetchFailed ==
    /\ apc = "dem"
    /\ fpc = "raised"
    /\ AcqRaise("RuntimeError")
    /\ dl' = IF requests # <<>> THEN dl \cup {pacioos_dem_dataset_ids[aidx]} ELSE dl
    /\ written' = written
    /\ FetchReset
    /\ UNCHANGED <<fs, aidx, mstack, acqParams, aprev, prepVars, unitVars>>

\* main() is run once more with the same arguments: a run and its re-run.
AcqRerun ==
    /\ apc \in {"done", "raised"}
    /\ aprev = <<>>
    /\ aprev' = Append(aprev, [outcome |-> apc, fs |-> fs])
    /\ dl' = {}
    /\ written' = {}
    /\ aerr' = <<>>
    /\ AcqGoto(<<"zip", 1>>)
    /\ UNCHANGED <<fs, mstack, acqParams, fetchVars, prepVars, unitVars>>

AcqIdle ==
    /\ apc = "idle"
    /\ aidx = 0
    /\ mstack = <<>>
    /\ dl = {}
    /\ written = {}
    /\ aerr = <<>>
    /\ aprev = <<>>
    /\ overwrite_git = FALSE
    /\ overwrite_tif = FALSE
    /\ overwrite_nc = FALSE
    /\ gdal = FALSE

\* ------------------------------------------------------------------ direct calls
\* One operation called on its own, outside the orchestrators.
UnitRaster == PathJoin(RawDir, <<"r", ".tif">>)

UnitVector == source_inputs["parcels"]

UnitTileDir == source_inputs["dem_dir"]

UnitDs == pacioos_dem_dataset_ids[1]

\* The record of a direct call.
UnitCall(fn, ov, args) == <<[fn |-> fn, ov |-> ov, args |-> args, pre |-> fs]>>

\* The outcome of a call that ran in the engine state R.
UnitOutcome(R) ==
    /\ Commit(R)
    /\ uerr' = R.err
    /\ uret' = IF R.err = <<>> THEN <<R.ret>> ELSE <<>>

\* mosaic_dir_to_raster(raster_dir, out_mosaic, overwrite)
UnitMosaic ==
    /\ ucall = <<>>
    /\ \E fails \in BOOLEAN, order \in Orders, ov \in BOOLEAN :
          /\ UnitOutcome(mosaic_dir_to_raster(Enumerate(Enter(MosaicFailAt(fails)), order),
                                              UnitTileDir, MosaicTmp("dem"), ov))
          /\ ucall' = UnitCall("mosaic_dir_to_raster", ov, <<order>>)
    /\ UNCHANGED <<p_overwrite, ppc, pidx, src_raster, perr, pret, prev, fetchVars, acqVars>>

\* define_projection_if_missing(raster_path, assumed_epsg, temp_dir, overwrite)
UnitDefine ==
    /\ ucall = <<>>
    /\ \E failAt \in 0..MaxFailAt, ov \in BOOLEAN :
          /\ UnitOutcome(define_projection_if_missing(Enter(failAt), UnitRaster,
                                                      AssumedEpsg, tempspace, ov))
          /\ ucall' = UnitCall("define_projection_if_missing", ov, <<failAt>>)
    /\ UNCHANGED <<p_overwrite, ppc, pidx, src_raster, perr, pret, prev, fetchVars, acqVars>>

\* prep_raster_to_target(src_raster, prepared_tif, target_epsg, temp_dir, ...)
UnitPrepRaster ==
    /\ ucall = <<>>
    /\ \E failAt \in 0..MaxFailAt, ov \in BOOLEAN, assume \in {<<>>, <<AssumedEpsg>>} :
          /\ UnitOutcome(prep_raster_to_target(Enter(failAt), UnitRaster,
                              prepared_outputs["rainfall"], TargetEpsg, tempspace,
                              "BILINEAR", assume, ov))
          /\ ucall' = UnitCall("prep_raster_to_target", ov, <<failAt, assume>>)
    /\ UNCHANGED <<p_overwrite, ppc, pidx, src_raster, perr, pret, prev, fetchVars, acqVars>>

\* prep_vector_to_gpkg(src_fc, out_gpkg, out_layer, target_epsg, temp_dir, ...)
UnitPrepVector ==
    /\ ucall = <<>>
    /\ \E failAt \in 0..MaxFailAt, ov \in BOOLEAN :
          /\ UnitOutcome(prep_vector_to_gpkg(Enter(failAt), UnitVector, Gpkg, "parcels",
                                             TargetEpsg, tempspace, ov))
          /\ ucall' = UnitCall("prep_vector_to_gpkg", ov, <<failAt>>)
    /\ UNCHANGED <<p_overwrite, ppc, pidx, src_raster, perr, pret, prev, fetchVars, acqVars>>

\* The error nc_to_geotiff_and_delete raises, by outcome (lines 165, 171, 185).
ConvertError(o) ==
    IF o = "no_gdal" THEN <<"RuntimeError", "gdal_translate not found on PATH">>
    ELSE IF o = "no_nc" THEN <<"RuntimeError", "Expected NetCDF does not exist">>
    ELSE IF o = "failed" THEN <<"CalledProcessError">>
    ELSE <<>>

\* nc_to_geotiff_and_delete(nc_path, tif_path, overwrite_tif)
UnitConvert ==
    /\ ucall = <<>>
    /\ \E ov \in BOOLEAN, run_ok \in BOOLEAN :
          LET o == ConvertOutcome(fs, NcPath(UnitDs), TifPath(UnitDs), ov, gdal, run_ok)
          IN  /\ fs' = nc_to_geotiff_and_delete(fs, NcPath(UnitDs), TifPath(UnitDs), o)
              /\ uerr' = ConvertError(o)
              /\ uret' = <<>>
              /\ ucall' = UnitCall("nc_to_geotiff_and_delete", ov, <<run_ok, o>>)
    /\ UNCHANGED <<prepVars, fetchVars, acqVars>>

UnitIdle ==
    /\ ucall = <<>>
    /\ uret = <<>>
    /\ uerr = <<>>

\* ------------------------------------------------------------------ initial disk
Sources == {"dem_dir", "watertable_dir", "slope_dir", "rainfall"} \cup VectorKeys

TiledSources == {"dem_dir", "watertable_dir", "slope_dir"}

\* Sources whose spatial reference may be the odd one out in an initial state.
OddSources == {"dem_dir", "watertable_dir", "parcels"}

RECURSIVE PutAll(_, _, _)
PutAll(f, S, v) ==
    IF S = {} THEN f
    ELSE LET p == CHOOSE x \in S : TRUE IN PutAll(Put(f, p, v), S \ {p}, v)

\* One source of the raw tree: a tile directory with the tiles T, or a dataset.
PutSource(f, k, srs, T) ==
    IF k \in TiledSources
    THEN PutAll(Put(f, source_inputs[k], DirEntry),
                {TilePath(source_inputs[k], t) : t \in T}, GeoFile(srs))
    ELSE Put(f, source_inputs[k], GeoFile(srs))

\* The raw tree: every source is present; the tiles of emptyDir are missing;
\* every source carries base, except odd, which carries oddSrs.
RECURSIVE RawTreeOf(_, _, _, _, _, _)
RawTreeOf(f, K, base, odd, oddSrs, emptyDir) ==
    IF K = {} THEN f
    ELSE LET k == CHOOSE x \in K : TRUE
         IN  RawTreeOf(PutSource(f, k, IF k = odd THEN oddSrs ELSE base,
                                 IF k = emptyDir THEN {} ELSE TileNames),
                       K \ {k}, base, odd, oddSrs, emptyDir)

RawTree(base, odd, oddSrs, emptyDir) ==
    RawTreeOf(NoFiles, Sources, base, odd, oddSrs, emptyDir)

\* The prepared tree: the rasters of R at their canonical paths and, when
\* hasGpkg, the GeoPackage holding the layers L.
PreparedTree(f, R, hasGpkg, L) ==
    LET g == PutAll(f, {raster_subfolder_path(prepared_outputs[k]) : k \in R},
                    GeoFile(<<TargetEpsg>>))
    IN  IF hasGpkg
        THEN PutAll(Put(g, Gpkg, GeoFile(<<>>)),
                    {gpkg_layer_path(Gpkg, l) : l \in L}, GeoFile(<<TargetEpsg>>))
        ELSE g

FetchIdle ==
    /\ remote = 0
    /\ fpc = "idle"
    /\ out_path = <<>>
    /\ overwrite = FALSE
    /\ retries = 0
    /\ attempt = 0
    /\ resume_pos = 0
    /\ headers = <<>>
    /\ rpos = 0
    /\ requests = <<>>
    /\ waits = <<>>
    /\ ferr = <<>>

PrepIdle ==
    /\ calls = <<>>
    /\ arcenv = FALSE
    /\ p_overwrite = FALSE
    /\ ppc = "idle"
    /\ pidx = 0
    /\ src_raster = <<>>
    /\ perr = <<>>
    /\ pret = <<>>
    /\ prev = <<>>

\* A call of download_streaming: any destination state, any sidecar that is a
\* prefix of the remote resource (or none), any flag, a small budget or the
\* default one.
InitFetch ==
    /\ PrepIdle
    /\ AcqIdle
    /\ UnitIdle
    /\ remote \in 1..MaxFull
    /\ out_path = FetchOut
    /\ overwrite \in BOOLEAN
    /\ retries \in 0..MaxRetries \cup {DefaultRetries}
    /\ \E destExists \in BOOLEAN, n \in -1..remote :
          fs = LET f1 == IF destExists THEN Put(NoFiles, FetchOut, DataFile(StaleData))
                         ELSE NoFiles
               IN  IF n >= 0 THEN Put(f1, part_path(FetchOut), DataFile(RemoteRange(0, n)))
                   ELSE f1
    /\ fpc = "start"
    /\ attempt = 0
    /\ resume_pos = 0
    /\ headers = <<>>
    /\ rpos = 0
    /\ requests = <<>>
    /\ waits = <<>>
    /\ ferr = <<>>

NextFetch ==
    \/ FetchStep
    \/ FetchKill

SpecFetch == InitFetch /\ [][NextFetch]_vars

\* A first call of prepare_source_inputs on a disk left by earlier runs.
InitPrep ==
    /\ FetchIdle
    /\ AcqIdle
    /\ UnitIdle
    /\ \E base \in {<<AssumedEpsg>>, <<TargetEpsg>>},
          odd \in OddSources \cup {"none"},
          oddSrs \in {<<>>, <<0>>},
          emptyDir \in {"none", "dem_dir", "watertable_dir"},
          R \in SUBSET RASTER_KEYS,
          G \in {<<FALSE, {}>>, <<TRUE, {}>>, <<TRUE, {"parcels"}>>, <<TRUE, VectorKeys>>} :
          fs = PreparedTree(RawTree(base, odd, oddSrs, emptyDir), R, G[1], G[2])
    /\ calls = <<>>
    /\ arcenv = FALSE
    /\ p_overwrite \in BOOLEAN
    /\ ppc = "start"
    /\ pidx = 0
    /\ src_raster = <<>>
    /\ perr = <<>>
    /\ pret = <<>>
    /\ prev = <<>>

NextPrep ==
    \/ PrepStart
    \/ PrepRasterGate
    \/ PrepRasterTarget
    \/ PrepVectorJob
    \/ PrepReturn
    \/ PrepRerun

SpecPrep == InitPrep /\ [][NextPrep]_vars

\* The DEM folder as earlier runs may have left it for the first dataset:
\* a GeoTIFF, a NetCDF, a sidecar holding the first n chunks (none: n = -1).
DemLeftovers(hasTif, hasNc, n) ==
    LET ds == pacioos_dem_dataset_ids[1]
        f0 == IF hasTif \/ hasNc \/ n >= 0 THEN ensure_dir(NoFiles, DemDir) ELSE NoFiles
        f1 == IF hasTif THEN Put(f0, TifPath(ds), DataFile(StaleData)) ELSE f0
        f2 == IF hasNc THEN Put(f1, NcPath(ds), DataFile(StaleData)) ELSE f1
    IN  IF n >= 0 THEN Put(f2, part_path(NcPath(ds)), DataFile(RemoteRange(0, n))) ELSE f2

\* A first run of main() with any flags, with or without gdal_translate.
InitAcq ==
    /\ FetchIdle
    /\ PrepIdle
    /\ UnitIdle
    /\ \E hasTif \in BOOLEAN, hasNc \in BOOLEAN, n \in {-1, 1, DemSize} :
          fs = DemLeftovers(hasTif, hasNc, n)
    /\ apc = "zip"
    /\ aidx = 1
    /\ mstack = <<>>
    /\ dl = {}
    /\ written = {}
    /\ aerr = <<>>
    /\ aprev = <<>>
    /\ overwrite_git \in BOOLEAN
    /\ overwrite_tif \in BOOLEAN
    /\ overwrite_nc \in BOOLEAN
    /\ gdal \in BOOLEAN

NextAcq ==
    \/ ZipAcquire
    \/ MirrorStart
    \/ MirrorItem
    \/ MirrorReturn
    \/ DemLoop
    \/ FetchStep
    \/ DemConvert
    \/ DemFetchFailed
    \/ AcqRerun

SpecAcq == InitAcq /\ [][NextAcq]_vars

\* One run of main(), without a re-run.
NextAcqRun ==
    \/ ZipAcquire
    \/ MirrorStart
    \/ MirrorItem
    \/ MirrorReturn
    \/ DemLoop
    \/ FetchStep
    \/ DemConvert
    \/ DemFetchFailed

SpecAcqRun == InitAcq /\ [][NextAcqRun]_vars

\* The folder of the mirrored dataset as earlier runs may have left it: the
\* files of S, each with the content of an earlier download.
MirrorF1 == PathJoin(GitFolder(github_datasets[1]), <<"f1", ".tif">>)

MirrorSub == PathJoin(GitFolder(github_datasets[1]), <<"sub">>)

MirrorF2 == PathJoin(MirrorSub, <<"f2", ".tif">>)

MirrorLeftovers(hasFolder, hasSub, S) ==
    LET f0 == IF hasFolder \/ hasSub \/ S # {}
              THEN ensure_dir(NoFiles, GitFolder(github_datasets[1])) ELSE NoFiles
        f1 == IF hasSub \/ MirrorF2 \in S THEN ensure_dir(f0, MirrorSub) ELSE f0
    IN  PutAll(f1, S, DataFile(StaleData))

\* A call of download_github_folder on a folder left by earlier runs.
InitMirror ==
    /\ FetchIdle
    /\ PrepIdle
    /\ UnitIdle
    /\ \E hasFolder \in BOOLEAN, hasSub \in BOOLEAN, S \in SUBSET {MirrorF1, MirrorF2} :
          fs = MirrorLeftovers(hasFolder, hasSub, S)
    /\ apc = "git"
    /\ aidx = 1
    /\ mstack = <<>>
    /\ dl = {}
    /\ written = {}
    /\ aerr = <<>>
    /\ aprev = <<>>
    /\ overwrite_git \in BOOLEAN
    /\ overwrite_tif = FALSE
    /\ overwrite_nc = FALSE
    /\ gdal = FALSE

NextMirror ==
    \/ MirrorStart
    \/ MirrorItem
    \/ MirrorReturn

SpecMirror == InitMirror /\ [][NextMirror]_vars

\* The spatial references a dataset on disk may carry: none, code 0, the
\* assumed EPSG, the target EPSG.
SrsChoices == {<<>>, <<0>>, <<AssumedEpsg>>, <<TargetEpsg>>}

\* The tile directory of a direct call: the tiles T, a file that is no .tif,
\* and a subdirectory holding a .tif of its own.
UnitTiles(f, T, srs) ==
    LET d == PutAll(Put(f, UnitTileDir, DirEntry),
                    {TilePath(UnitTileDir, t) : t \in T}, GeoFile(srs))
        e == Put(d, PathJoin(UnitTileDir, <<"a", ".nc">>), DataFile(StaleData))
        g == Put(e, PathJoin(UnitTileDir, <<"sub">>), DirEntry)
    IN  Put(g, TilePath(PathJoin(UnitTileDir, <<"sub">>), "a"), GeoFile(srs))

\* Outputs left by earlier calls: the scratch files and the prepared outputs.
UnitScratch(f, hasScratch) ==
    IF hasScratch
    THEN PutAll(ensure_dir(f, tempspace),
                {DefinedTmp(tempspace, UnitRaster), MosaicTmp("dem")}, GeoFile(<<>>))
    ELSE f

UnitPrepared(f, hasOut) ==
    IF hasOut
    THEN PreparedTree(f, {"rainfall"}, TRUE, {"parcels"})
    ELSE f

\* The disk a direct call starts from.
UnitDisk(srs, T, hasScratch, hasOut, hasTif, hasNc, n) ==
    UnitPrepared(
        UnitScratch(
            UnitTiles(Put(Put(DemLeftovers(hasTif, hasNc, n), RawDir, DirEntry),
                          UnitRaster, GeoFile(srs)),
                      T, srs) @@ (UnitVector :> GeoFile(srs)),
            hasScratch),
        hasOut)

InitUnit ==
    /\ FetchIdle
    /\ PrepIdle
    /\ UnitIdle
    /\ \E srs \in SrsChoices, T \in SUBSET TileNames, hasScratch \in BOOLEAN,
          hasOut \in BOOLEAN, hasTif \in BOOLEAN, hasNc \in BOOLEAN, n \in {-1, 1} :
          fs = UnitDisk(srs, T, hasScratch, hasOut, hasTif, hasNc, n)
    /\ apc = "idle"
    /\ aidx = 0
    /\ mstack = <<>>
    /\ dl = {}
    /\ written = {}
    /\ aerr = <<>>
    /\ aprev = <<>>
    /\ overwrite_git = FALSE
    /\ overwrite_tif = FALSE
    /\ overwrite_nc = FALSE
    /\ gdal \in BOOLEAN

NextUnit ==
    \/ UnitMosaic
    \/ UnitDefine
    \/ UnitPrepRaster
    \/ UnitPrepVector
    \/ UnitConvert

SpecUnit == InitUnit /\ [][NextUnit]_vars

\* ------------------------------------------------------------------ claims

\* An attempt of the fetch found the destination absent or overwrite set and
\* a stream ended without error: the sidecar was promoted.
Promoted == fpc = "done" /\ requests # <<>>

\* C1: starting with overwrite=false from a sidecar that is a prefix of the
\* remote resource, after any failed attempts and one successful attempt the
\* promoted destination has exactly the size of the remote resource.
C1_ResumeCorrectness ==
    (Promoted /\ ~overwrite) => StatSize(out_path) = remote

\* Some chunk of the remote resource is missing from d.
Partial(d) == \E c \in 0..(remote - 1) : \A i \in 1..Len(d) : d[i] # c

DestData(f) == IF Has(f, out_path) THEN <<f[out_path]>> ELSE <<>>

\* C2: streamed chunks go to the sidecar only; the destination is created or
\* replaced only by the rename of the sidecar after a stream that ended without
\* error, and it never holds a partially streamed resource.
C2_AtomicPromotion ==
    /\ [][DestData(fs') # DestData(fs) =>
             /\ fpc = "stream" /\ rpos = remote /\ fpc' = "done"
             /\ DestData(fs') = <<fs[tmp_path]>>
             /\ ~Has(fs', tmp_path)]_vars
    /\ [](fpc # "idle" /\ Exists(out_path) =>
             \/ fs[out_path].data = StaleData
             \/ ~Partial(fs[out_path].data))

C2_Witness ==
    /\ Promoted
    /\ Len(requests) > 1
    /\ fs[out_path].data # StaleData

\* C3: when every attempt fails, exactly `retries` requests are issued, in
\* attempts 1..retries, then the fatal error naming the destination and the
\* attempt count is raised, and no request follows it.
C3_RetryBound ==
    /\ [](fpc = "raised" =>
             /\ Len(requests) = retries
             /\ ferr = <<[kind |-> "RuntimeError", attempts |-> retries,
                          name |-> <<"out", ".nc">>]>>)
    /\ [](fpc = "request" => attempt = Len(requests) + 1 /\ attempt \in 1..retries)
    /\ [](fpc # "idle" => Len(requests) <= retries)
    /\ [][fpc = "raised" => requests' = requests]_vars

C3_Witness == fpc = "raised" /\ retries >= 2 /\ Len(requests) = retries

\* The run in progress re-runs main() after a run that completed, with every
\* overwrite flag false.
RerunAfterSuccess ==
    /\ aprev # <<>>
    /\ aprev[1].outcome = "done"
    /\ ~overwrite_git
    /\ ~overwrite_tif
    /\ ~overwrite_nc

\* The artifacts of a disk: its files other than the .part sidecars.
Artifacts(f) == {p \in DOMAIN f : f[p].kind = "file" /\ PathSuffix(p) # <<".part">>}

\* C4: with every overwrite flag false, re-running main() after a fully
\* successful run requests no dataset content and neither rewrites nor
\* changes any artifact the first run left on disk.
C4_NoRedownloadOnRerun ==
    RerunAfterSuccess =>
        /\ dl = {}
        /\ written \cap Artifacts(aprev[1].fs) = {}
        /\ \A p \in Artifacts(aprev[1].fs) : Has(fs, p) /\ fs[p] = aprev[1].fs[p]

\* A layer is complete when its canonical output exists: the .tif inside the
\* same-named subfolder for a raster, the named layer of the GeoPackage for a
\* vector.
LayerComplete(f, k) ==
    IF k \in RASTER_KEYS
    THEN Has(f, PathJoin(PathJoin(PreparedDir, <<k>>), <<k, ".tif">>))
    ELSE Has(f, PathJoin(Gpkg, <<k>>))

AllComplete(f) == \A k \in RASTER_KEYS \cup VectorKeys : LayerComplete(f, k)

\* C5: whenever prepare_source_inputs returns normally, every one of the 14
\* layers is complete.
C5_ReturnMeansAllComplete ==
    ppc = "returned" => AllComplete(fs)

\* C6: wherever the skip gate is evaluated (the up-front missing set, the
\* check of a raster block, the check of a vector job) it holds for a layer
\* if and only if that layer's own canonical output exists.
C6_GateIffCanonicalOutput ==
    /\ ppc = "start" =>
          \A k \in DOMAIN prepared_outputs :
             prepared_exists(fs, k, prepared_outputs[k]) <=> LayerComplete(fs, k)
    /\ ppc = "raster" =>
          (prepared_exists(fs, RasterJobs[pidx].key, prepared_outputs[RasterJobs[pidx].key])
              <=> LayerComplete(fs, RasterJobs[pidx].key))
    /\ ppc = "vector" =>
          (path_exists(fs, prepared_outputs[vector_jobs[pidx][1]])
              <=> LayerComplete(fs, vector_jobs[pidx][1]))

\* The engine operations of the log that write a dataset.
IsWrite(c) == c.op \notin {"Exists", "Describe"}

Writes(log) == SelectSeq(log, IsWrite)

DemTiles == {TilePath(source_inputs["dem_dir"], t) : t \in TileNames}

\* The DEM directory holds 3 tiles, none of which carries a CRS.
DemScenario ==
    /\ \A p \in DemTiles : Has(fs, p) /\ ~HasCode(fs[p].srs)
    /\ Cardinality(DemTiles) = 3

DemCanonical == << <<"prepared">>, <<"dem">>, <<"dem", ".tif">> >>

\* The run mosaicked the DEM tiles and has left prep_raster_to_target of the
\* DEM block, no engine operation having failed.
DemBlockDone ==
    /\ prev = <<>>
    /\ calls # <<>>
    /\ calls[1].op = "MosaicToNewRaster"
    /\ calls[1].dst = MosaicTmp("dem")
    /\ ~(ppc = "prep" /\ pidx = 1)
    /\ perr = <<>> \/ perr[1].kind # "ExecuteError"

\* C7: with 3 DEM tiles lacking CRS, target 32604 and assumed 4326, the run
\* mosaics the 3 tiles, stamps EPSG:4326 on a copy, reprojects it bilinearly to
\* EPSG:32604, in this order, and writes prepared/dem/dem.tif.
C7_DemEndToEnd ==
    (DemScenario /\ DemBlockDone) =>
        /\ Has(fs, DemCanonical)
        /\ Len(Writes(calls)) >= 4
        /\ LET w == Writes(calls)
           IN  /\ w[1].op = "MosaicToNewRaster" /\ Len(w[1].inputs) = 3
               /\ w[2].op = "CopyRaster" /\ w[2].src = MosaicTmp("dem")
               /\ w[3].op = "DefineProjection" /\ w[3].dst = w[2].dst
                  /\ w[3].method = "4326"
               /\ w[4].op = "ProjectRaster" /\ w[4].src = w[2].dst
                  /\ w[4].method = "BILINEAR" /\ w[4].dst = DemCanonical

\* The run that just ended returned normally, and this is the run after it.
AfterNormalRun == prev # <<>> /\ prev[Len(prev)].outcome = "returned"

\* C8: the run that immediately follows a run that returned normally performs
\* no GIS-engine operation and returns the manifest the first run returned.
C8_Idempotence ==
    AfterNormalRun =>
        /\ calls = <<>>
        /\ ppc # "raised"
        /\ ppc = "returned" => pret = prev[Len(prev)].ret /\ pret # <<>>

C8_Witness ==
    /\ AfterNormalRun
    /\ prev[Len(prev)].ncalls > 0
    /\ ppc = "returned"

\* C9: a run that starts with every key of the prepared catalog complete
\* returns the prepared catalog in its first step and invokes no GIS-engine
\* operation.
C9_FastNoOp ==
    [][(ppc = "start" /\ AllComplete(fs)) =>
           /\ ppc' = "returned"
           /\ pret' = <<prepared_outputs>>
           /\ calls' = <<>>
           /\ calls = <<>>
           /\ arcenv' = arcenv]_vars

C9_Witness ==
    /\ ppc = "returned"
    /\ prev = <<>>
    /\ calls = <<>>
    /\ AllComplete(fs)

\* The log holds a reprojection or a copy into the prepared location whose
\* input carries no CRS.
WritesFromNoCrs(log) ==
    \E i \in 1..Len(log) :
       /\ log[i].op \in {"ProjectRaster", "Project", "FeatureClassToFeatureClass"}
             \/ (log[i].op = "CopyRaster" /\ log[i].dst[1] = <<"prepared">>)
       /\ Has(fs, log[i].src)
       /\ ~HasCode(fs[log[i].src].srs)

\* The run was halted in `at` while handling a dataset without readable CRS
\* for which no assumed EPSG applies, no engine operation having failed.
HaltedOnNoCrs(at) ==
    /\ ppc = "raised"
    /\ perr[1].at = at
    /\ perr[1].kind # "ExecuteError"
    /\ IF at = "prep_raster_to_target"
       THEN /\ RasterJobs[pidx].assume = <<>>
            /\ Has(fs, src_raster)
            /\ ~HasCode(fs[src_raster].srs)
       ELSE /\ Has(fs, source_inputs[vector_jobs[pidx][1]])
            /\ ~HasCode(fs[source_inputs[vector_jobs[pidx][1]]].srs)

\* C10: no reprojection and no copy into the prepared location is invoked on
\* a dataset whose CRS is unresolved; prep_raster_to_target (no fallback) and
\* prep_vector_to_gpkg fail on such a dataset with the CRS-unresolvable error.
C10_NoProjectionWithoutCrs ==
    /\ ~WritesFromNoCrs(calls)
    /\ HaltedOnNoCrs("prep_raster_to_target") => perr[1].kind = "ValueError"
    /\ HaltedOnNoCrs("prep_vector_to_gpkg") => perr[1].kind = "ValueError"

\* The layer the previous run was preparing when it was halted.
HaltedLayer ==
    LET e == prev[Len(prev)].err[1]
    IN  IF e.at = "prep_vector_to_gpkg" THEN vector_jobs[e.idx][1]
        ELSE RasterJobs[e.idx].key

\* The previous run was halted by a fatal error.
AfterHaltedRun == prev # <<>> /\ prev[Len(prev)].outcome = "raised"

\* The run is at the gate of the layer the previous run was halted in.
AtGateOfHaltedLayer ==
    \/ ppc = "raster" /\ RasterJobs[pidx].key = HaltedLayer
    \/ ppc = "vector" /\ vector_jobs[pidx][1] = HaltedLayer

\* C11: after a run halted by a fatal error while preparing layer L, the
\* next run's missing set contains L, and the gate of L in the next run does
\* not skip it.
C11_RecoveryByRerun ==
    AfterHaltedRun =>
        /\ ppc = "start" => HaltedLayer \in missing_items(fs)
        /\ AtGateOfHaltedLayer =>
              ~prepared_exists(fs, HaltedLayer, prepared_outputs[HaltedLayer])

\* The direct call made was a call of fn.
Called(fn) == ucall # <<>> /\ ucall[1].fn = fn

\* C12: mosaic_dir_to_raster on a directory without a top-level .tif raises
\* FileNotFoundError, invokes no engine operation and leaves every file as
\* it was (no output created, nothing deleted).
C12_ZeroTileFailure ==
    (Called("mosaic_dir_to_raster") /\ GlobTif(ucall[1].pre, UnitTileDir) = {}) =>
        /\ uerr = <<"FileNotFoundError">>
        /\ calls = <<>>
        /\ fs = ucall[1].pre

C12_Witness ==
    /\ Called("mosaic_dir_to_raster")
    /\ GlobTif(ucall[1].pre, UnitTileDir) = {}
    /\ Has(ucall[1].pre, MosaicTmp("dem"))
    /\ ucall[1].ov
    /\ uerr # <<>>

\* The top-level .tif tiles of the directory on disk f, in ascending
\* lexicographic order of their names.
AscendingTiles(f) ==
    LET OnDisk(p) == Has(f, p)
    IN  SelectSeq(<<TilePath(UnitTileDir, "a"), TilePath(UnitTileDir, "b"),
                    TilePath(UnitTileDir, "c")>>, OnDisk)

\* C13: whatever the order in which the filesystem enumerates the directory,
\* the list mosaic_dir_to_raster hands to the engine is the top-level .tif
\* files in ascending filename order, merged with method FIRST.
C13_MosaicDeterminism ==
    (Called("mosaic_dir_to_raster") /\ calls # <<>>) =>
        /\ Len(calls) = 1
        /\ calls[1].op = "MosaicToNewRaster"
        /\ calls[1].inputs = AscendingTiles(ucall[1].pre)
        /\ calls[1].method = "FIRST"

C13_Witness ==
    /\ Called("mosaic_dir_to_raster")
    /\ calls # <<>>
    /\ Len(calls[1].inputs) = 3
    /\ ucall[1].args[1] # LexRank
    /\ uerr = <<>>

\* The engine operations a log holds.
Ops(log) == {log[i].op : i \in DOMAIN log}

\* The dataset p of the disk the direct call started from carries the target
\* EPSG.
InTargetCrs(p) == Has(ucall[1].pre, p) /\ ucall[1].pre[p].srs = <<TargetEpsg>>

\* No engine operation was made to fail in the direct call.
NoInjectedFailure == ucall[1].args[1] = 0

\* C14: when the source EPSG equals the target EPSG, prep_raster_to_target
\* invokes CopyRaster on the source and never ProjectRaster, and
\* prep_vector_to_gpkg invokes FeatureClassToFeatureClass on the source and
\* neither Project nor the creation of the scratch database.
C14_CrsNoOp ==
    /\ (Called("prep_raster_to_target") /\ InTargetCrs(UnitRaster) /\ NoInjectedFailure) =>
          /\ "ProjectRaster" \notin Ops(calls)
          /\ \E i \in DOMAIN calls : calls[i].op = "CopyRaster" /\ calls[i].src = UnitRaster
    /\ (Called("prep_vector_to_gpkg") /\ InTargetCrs(UnitVector) /\ NoInjectedFailure) =>
          /\ Ops(calls) \cap {"Project", "CreateFileGDB"} = {}
          /\ \E i \in DOMAIN calls :
                /\ calls[i].op = "FeatureClassToFeatureClass"
                /\ calls[i].src = UnitVector
                /\ calls[i].dst = gpkg_layer_path(Gpkg, "parcels")

\* The scratch path define_projection_if_missing copies the raster to.
UnitDefined == PathJoin(tempspace, <<"r", "_defined", ".tif">>)

\* C15: define_projection_if_missing never modifies its input raster and
\* never invokes a reprojection; with a CRS present it returns the input
\* path and invokes no engine write; with the CRS absent it copies the raster
\* to the scratch path, stamps the assumed EPSG on that copy and returns it.
C15_StampOnlyOnCopy ==
    Called("define_projection_if_missing") =>
        /\ Has(fs, UnitRaster) /\ fs[UnitRaster] = ucall[1].pre[UnitRaster]
        /\ Ops(calls) \cap {"ProjectRaster", "Project", "MosaicToNewRaster"} = {}
        /\ \A i \in DOMAIN Writes(calls) : Writes(calls)[i].dst = UnitDefined
        /\ HasCode(ucall[1].pre[UnitRaster].srs) =>
              /\ uerr = <<>>
              /\ uret = <<UnitRaster>>
              /\ Writes(calls) = <<>>
        /\ (~HasCode(ucall[1].pre[UnitRaster].srs) /\ uerr = <<>>) =>
              /\ uret = <<UnitDefined>>
              /\ Len(Writes(calls)) = 2
              /\ Writes(calls)[1].op = "CopyRaster"
              /\ Writes(calls)[1].src = UnitRaster
              /\ Writes(calls)[2].op = "DefineProjection"
              /\ Writes(calls)[2].method = "4326"
              /\ fs[UnitDefined].srs = <<AssumedEpsg>>

C15_Witness ==
    /\ Called("define_projection_if_missing")
    /\ ~HasCode(ucall[1].pre[UnitRaster].srs)
    /\ uerr = <<>>
    /\ Has(ucall[1].pre, UnitDefined)
    /\ Len(calls) > 1

UnitNc == NcPath(UnitDs)

UnitTif == TifPath(UnitDs)

\* nc_to_geotiff_and_delete was called and had to produce the target: the
\* target was absent or overwrite_tif was set.
ConvertNeeded ==
    /\ Called("nc_to_geotiff_and_delete")
    /\ ~Has(ucall[1].pre, UnitTif) \/ ucall[1].ov

\* The conversion was run: the tool was available and the source existed.
ConvertRan == ConvertNeeded /\ gdal /\ Has(ucall[1].pre, UnitNc)

\* C16: when the conversion runs and succeeds the NetCDF is deleted; when it
\* fails the error propagates and the NetCDF still exists, unchanged.
C16_ConverterOutcome ==
    /\ (ConvertRan /\ ucall[1].args[1]) =>
          /\ uerr = <<>>
          /\ Has(fs, UnitTif)
          /\ ~Has(fs, UnitNc)
    /\ (ConvertRan /\ ~ucall[1].args[1]) =>
          /\ uerr = <<"CalledProcessError">>
          /\ Has(fs, UnitNc)
          /\ fs[UnitNc] = ucall[1].pre[UnitNc]

C16_Witness ==
    /\ ConvertRan
    /\ ~ucall[1].args[1]
    /\ Has(fs, UnitNc)
    /\ uerr # <<>>

\* C17: when the target has to be produced and gdal_translate is not
\* available, the configuration error is raised with no file created,
\* deleted or modified, also when the source file is missing.
C17_MissingTool ==
    (ConvertNeeded /\ ~gdal) =>
        /\ uerr = <<"RuntimeError", "gdal_translate not found on PATH">>
        /\ fs = ucall[1].pre

C17_Witness ==
    /\ ConvertNeeded
    /\ ~gdal
    /\ ~Has(ucall[1].pre, UnitNc)
    /\ uerr # <<>>

\* The disk f without the paths of S.
Without(f, S) == [q \in DOMAIN f \ S |-> f[q]]

\* C18: when the target exists and overwrite_tif is false, the call returns
\* without error, converts nothing, leaves the target and every other file
\* unchanged, and removes the NetCDF and its .part sidecar, whether or not
\* the tool is available and the source exists.
C18_ConverterSkip ==
    (Called("nc_to_geotiff_and_delete") /\ Has(ucall[1].pre, UnitTif) /\ ~ucall[1].ov) =>
        /\ uerr = <<>>
        /\ fs = Without(ucall[1].pre, {UnitNc, part_path(UnitNc)})
        /\ fs[UnitTif] = ucall[1].pre[UnitTif]

C18_Witness ==
    /\ Called("nc_to_geotiff_and_delete")
    /\ Has(ucall[1].pre, UnitTif)
    /\ ~ucall[1].ov
    /\ ~gdal
    /\ ~Has(ucall[1].pre, UnitNc)
    /\ Has(ucall[1].pre, part_path(UnitNc))
    /\ ~Has(fs, part_path(UnitNc))

\* C19: when the destination exists and overwrite is false, download_streaming
\* returns at once: no request, no wait, no error, and no file (destination
\* or sidecar) changed.
C19_FetchSkip ==
    [][(fpc = "start" /\ Exists(out_path) /\ ~overwrite /\ fpc' # "killed") =>
           /\ fpc' = "done"
           /\ fs' = fs
           /\ requests' = <<>>
           /\ waits' = <<>>
           /\ ferr' = <<>>]_vars

C19_Witness ==
    /\ fpc = "done"
    /\ requests = <<>>
    /\ ~overwrite
    /\ Exists(tmp_path)
    /\ fs[out_path].data = StaleData

\* The wait of the schedule after failed attempt k.
ScheduledWait(k) ==
    CASE k = 1 -> 2 [] k = 2 -> 4 [] k = 3 -> 8 [] k = 4 -> 16 [] k = 5 -> 32
      [] OTHER -> 60

\* C20: the wait that follows failed attempt k is min(60, 2^k) seconds: 2, 4,
\* 8, 16, 32, then 60 for every k >= 6; never above 60, never below 2.
C20_BackoffSchedule ==
    /\ \A k \in DOMAIN waits :
          /\ waits[k] = ScheduledWait(k)
          /\ waits[k] >= 2
          /\ waits[k] <= 60
    /\ fpc \in {"request", "open", "stream"} => Len(waits) = attempt - 1

C20_Witness ==
    /\ Len(waits) >= 7
    /\ waits[6] = 60
    /\ waits[7] = 60

\* Path p lies at or under path root.
Under(root, p) == Len(p) >= Len(root) /\ SubSeq(p, 1, Len(root)) = root

ZipRoots(n) == {ZipFolder(zip_sources[j]) : j \in 1..n}

GitRoots(n) == {GitFolder(github_datasets[j]) : j \in 1..n}

DemRoots(n) == {TifPath(pacioos_dem_dataset_ids[j]) : j \in 1..n}

\* The locations of the datasets the run in progress has completed.
CompletedRoots ==
    IF apc = "zip" THEN ZipRoots(aidx - 1)
    ELSE IF apc = "git" THEN ZipRoots(Len(zip_sources)) \cup GitRoots(aidx - 1)
    ELSE IF apc = "dem"
    THEN ZipRoots(Len(zip_sources)) \cup GitRoots(Len(github_datasets))
            \cup DemRoots(aidx - 1)
    ELSE {}

\* The datasets of the catalogs in the order main() acquires them.
AcqSequence == zip_sources \o github_datasets \o pacioos_dem_dataset_ids

\* The datasets main() had reached when it was at item i of `stage`.
ReachedBy(stage, i) ==
    LET n == IF stage = "zip" THEN i
             ELSE IF stage = "git" THEN Len(zip_sources) + i
             ELSE Len(zip_sources) + Len(github_datasets) + i
    IN  {AcqSequence[j] : j \in 1..n}

\* C21: a fatal error raised while acquiring a dataset leaves main(); no
\* dataset later in the sequence (ZIP sources, folder sources, DEM tiles) is
\* attempted in that run, and the files of the datasets completed earlier in
\* the run stay as they were.
C21_AcquisitionFailure ==
    /\ [](aerr # <<>> <=> apc = "raised")
    /\ [][(apc' = "raised" /\ apc # "raised") =>
             /\ dl' \subseteq ReachedBy(apc, aidx)
             /\ \A p \in DOMAIN fs :
                   (\E r \in CompletedRoots : Under(r, p)) =>
                       Has(fs', p) /\ fs'[p] = fs[p]]_vars
    /\ [][apc # "raised"]_vars
    /\ [][\A p \in DOMAIN fs :
             (\E r \in CompletedRoots : Under(r, p)) =>
                 Has(fs', p) /\ fs'[p] = fs[p]]_vars

C21_Witness ==
    /\ apc = "raised"
    /\ aprev = <<>>
    /\ aerr = <<"CalledProcessError">>
    /\ aidx = 2
    /\ Has(fs, TifPath(pacioos_dem_dataset_ids[1]))
    /\ Has(fs, ZipMember(zip_sources[1]))
    /\ ~Has(fs, TifPath(pacioos_dem_dataset_ids[2]))

\* The Range header an attempt owes to the sidecar it finds: the offset of the
\* sidecar's size when it is non-empty and overwrite is false, none otherwise.
RangeOwed ==
    IF ~overwrite /\ Exists(tmp_path) /\ StatSize(tmp_path) > 0
    THEN <<StatSize(tmp_path)>>
    ELSE <<>>

\* The sidecar once the attempt that sent header h has opened it: kept for a
\* range request (append), empty otherwise (truncate).
OpenedFor(h) == IF h # <<>> THEN fs ELSE Put(fs, tmp_path, DataFile(<<>>))

\* C22: with overwrite=false every attempt, the first and every retry, that
\* finds a non-empty sidecar asks for the byte range starting at the sidecar's
\* size at that time and appends; an attempt that finds none or an empty one
\* sends no Range header and truncates; with overwrite=true no attempt sends
\* a Range header and the sidecar is truncated.
C22_RangePerAttempt ==
    /\ [][(fpc = "request" /\ fpc' # "killed") =>
             requests' = Append(requests, RangeOwed)]_vars
    /\ [][(fpc = "open" /\ fpc' # "killed") =>
             fs' = OpenedFor(requests[Len(requests)])]_vars

\* C23: a backoff wait happens only between attempts: every wait is followed
\* by a further attempt, and a call whose `retries` attempts all fail has
\* waited retries-1 times when it raises its fatal error.
C23_WaitOnlyBetweenAttempts ==
    /\ [][waits' # waits => fpc' = "request"]_vars
    /\ []((fpc = "raised" /\ retries >= 1) => Len(waits) = retries - 1)

\* The path <dir>/<name>/<name>.tif of the prepared path <dir>/<name>.tif.
SubfolderTif(p) == PathJoin(PathJoin(PathParent(p), PathStem(p)), PathStem(p) \o <<".tif">>)

\* The direct call of prep_raster_to_target had a source with a readable CRS,
\* no failing engine operation and an output location free to write.
RasterPrepCanFinish ==
    /\ Called("prep_raster_to_target")
    /\ NoInjectedFailure
    /\ HasCode(ucall[1].pre[UnitRaster].srs)
    /\ ucall[1].ov \/ ~Has(ucall[1].pre, SubfolderTif(prepared_outputs["rainfall"]))

\* C24: prep_raster_to_target writes its output to <dir>/<name>/<name>.tif of
\* the prepared path <dir>/<name>.tif, the path prepared_exists tests for
\* every raster key, so a raster preparation that finishes makes its layer
\* complete.
C24_WriterGateAgreement ==
    /\ \A k \in RASTER_KEYS :
          raster_subfolder_path(prepared_outputs[k]) = SubfolderTif(prepared_outputs[k])
    /\ RasterPrepCanFinish =>
          /\ uerr = <<>>
          /\ uret = <<SubfolderTif(prepared_outputs["rainfall"])>>
          /\ calls[Len(calls)].dst = SubfolderTif(prepared_outputs["rainfall"])
          /\ prepared_exists(fs, "rainfall", prepared_outputs["rainfall"])

\* The layers of the shared GeoPackage on disk f.
GpkgLayers(f) == [p \in {q \in DOMAIN f : Under(Gpkg, q) /\ q # Gpkg} |-> f[p]]

\* The direct call of prep_vector_to_gpkg had a source whose readable CRS is
\* not the target.
VectorNeedsProjection ==
    /\ Called("prep_vector_to_gpkg")
    /\ HasCode(ucall[1].pre[UnitVector].srs)
    /\ ucall[1].pre[UnitVector].srs # <<TargetEpsg>>

\* Entry i of the engine log touches a layer of the GeoPackage.
TouchesLayer(i) ==
    \/ calls[i].op = "Delete" /\ Under(Gpkg, calls[i].src)
    \/ calls[i].op \notin {"Exists", "Describe", "Delete", "CreateSQLiteDatabase"}
          /\ Under(Gpkg, calls[i].dst)

\* The projection of the call ran to its end: a later operation is logged.
ProjectionFinished ==
    \E j \in DOMAIN calls : calls[j].op = "Project" /\ j < Len(calls)

\* C25: for a vector whose CRS differs from the target, Project writes only
\* into the scratch database; the GeoPackage layer is touched only after the
\* projection finished and written only by the final copy of the projected
\* dataset; when the projection fails no layer of the GeoPackage has been
\* written or deleted.
C25_VectorStaging ==
    VectorNeedsProjection =>
        /\ \A i \in DOMAIN calls :
              /\ calls[i].op = "Project" =>
                    /\ calls[i].dst = TmpFc(tempspace, "parcels", TargetEpsg)
                    /\ Under(GdbPath(tempspace), calls[i].dst)
              /\ TouchesLayer(i) =>
                    \E j \in 1..(i - 1) : calls[j].op = "Project"
              /\ (TouchesLayer(i) /\ calls[i].op # "Delete") =>
                    /\ calls[i].op = "FeatureClassToFeatureClass"
                    /\ calls[i].src = TmpFc(tempspace, "parcels", TargetEpsg)
                    /\ calls[i].dst = gpkg_layer_path(Gpkg, "parcels")
        /\ ~ProjectionFinished => GpkgLayers(fs) = GpkgLayers(ucall[1].pre)

C25_Witness ==
    /\ VectorNeedsProjection
    /\ ucall[1].ov
    /\ Has(ucall[1].pre, gpkg_layer_path(Gpkg, "parcels"))
    /\ calls # <<>>
    /\ calls[Len(calls)].op = "Project"
    /\ uerr = <<"ExecuteError">>

\* The policy of each raster layer: whether it is mosaicked first, the
\* resampling of its reprojection, and whether EPSG:4326 is assumed when its
\* CRS is missing.
LayerPolicy ==
    [dem        |-> [mosaic |-> TRUE,  method |-> "BILINEAR", fallback |-> TRUE],
     watertable |-> [mosaic |-> TRUE,  method |-> "NEAREST",  fallback |-> FALSE],
     slope      |-> [mosaic |-> TRUE,  method |-> "BILINEAR", fallback |-> TRUE],
     rainfall   |-> [mosaic |-> FALSE, method |-> "BILINEAR", fallback |-> FALSE]]

\* The raster layer whose block the run is in.
CurrentRaster == RasterJobs[pidx].key

\* The layer whose mosaic or stamped copy the scratch raster p is.
ScratchOf(k) ==
    {MosaicTmp(k), DefinedTmp(tempspace, MosaicTmp(k)),
     DefinedTmp(tempspace, source_inputs["rainfall"])}

\* C26: dem and slope are mosaicked and then prepared with bilinear
\* resampling and the assume-4326 fallback; watertable is mosaicked and then
\* prepared with nearest-neighbor resampling and no fallback, so its mosaic
\* without CRS fails; rainfall is prepared from its single source file with
\* bilinear resampling, no mosaic and no fallback.  A layer is prepared unless
\* an engine operation fails or, without fallback, its CRS is missing.
C26_PerLayerPolicy ==
    /\ ppc = "prep" =>
          IF LayerPolicy[CurrentRaster].mosaic
          THEN /\ src_raster = MosaicTmp(CurrentRaster)
               /\ calls # <<>>
               /\ calls[Len(calls)].op = "MosaicToNewRaster"
               /\ calls[Len(calls)].dst = MosaicTmp(CurrentRaster)
          ELSE /\ src_raster = source_inputs[CurrentRaster]
               /\ \A i \in DOMAIN calls : calls[i].dst # MosaicTmp(CurrentRaster)
    /\ \A i \in DOMAIN calls :
          /\ calls[i].op = "ProjectRaster" =>
                \E k \in RASTER_KEYS :
                   /\ calls[i].dst = SubfolderTif(prepared_outputs[k])
                   /\ calls[i].method = LayerPolicy[k].method
                   /\ calls[i].src \in ScratchOf(k) \cup {source_inputs["rainfall"]}
          /\ calls[i].op = "DefineProjection" =>
                \E k \in {"dem", "slope"} :
                   /\ calls[i].dst = DefinedTmp(tempspace, MosaicTmp(k))
                   /\ calls[i].method = "4326"
    /\ (ppc = "raised" /\ perr[1].at = "prep_raster_to_target"
           /\ perr[1].kind \notin {"ExecuteError", "IOError"}) =>
          /\ perr[1].kind = "ValueError"
          /\ ~LayerPolicy[CurrentRaster].fallback
          /\ ~HasCode(fs[src_raster].srs)

\* The order in which the layers are prepared.
PrepOrder ==
    <<"dem", "watertable", "slope", "rainfall", "parcels", "cesspools", "coastline",
      "sma", "streams", "wells_dom", "wells_mun", "buildings_fps", "soils",
      "flood_zones">>

\* The place in PrepOrder of the layer the run is at: 0 before the first
\* layer, 15 after the last.
PosRank ==
    IF ppc = "start" THEN 0
    ELSE IF ppc \in {"raster", "prep"} THEN pidx
    ELSE IF ppc = "vector" THEN 4 + pidx
    ELSE IF ppc = "raised"
    THEN (IF perr[1].at = "prep_vector_to_gpkg" THEN 4 + pidx ELSE pidx)
    ELSE 15

\* The dataset an engine operation writes or deletes.
CallTarget(c) == IF c.op = "Delete" THEN c.src ELSE c.dst

\* The operation writes or deletes a dataset other than the shared containers.
LayerSpecific(c) == IsWrite(c) /\ c.op \notin {"CreateSQLiteDatabase", "CreateFileGDB"}

\* The datasets the preparation of layer k writes.
TargetsOf(k) ==
    IF k \in RASTER_KEYS
    THEN ScratchOf(k) \cup {SubfolderTif(prepared_outputs[k])}
    ELSE {TmpFc(tempspace, k, TargetEpsg), gpkg_layer_path(Gpkg, k)}

\* C27: the missing layers are processed one at a time in the order dem,
\* watertable, slope, rainfall, parcels, cesspools, coastline, sma, streams,
\* wells_dom, wells_mun, buildings_fps, soils, flood_zones; every engine
\* operation of a step belongs to the layer the run is at, the run never goes
\* back to an earlier layer, a layer that is missing when its turn comes is
\* processed, and after a fatal error no later layer is attempted in that run.
C27_PreparationOrder ==
    /\ [](/\ ppc \in {"raster", "prep"} => RasterJobs[pidx].key = PrepOrder[PosRank]
          /\ ppc = "vector" => vector_jobs[pidx][1] = PrepOrder[PosRank]
          /\ perr # <<>> <=> ppc = "raised")
    /\ [][(prev' = prev /\ ppc # "start") =>
             /\ PosRank' >= PosRank
             /\ PosRank' <= PosRank + 1]_vars
    /\ [][(prev' = prev /\ calls' # calls) =>
             /\ Len(calls') > Len(calls)
             /\ SubSeq(calls', 1, Len(calls)) = calls
             /\ \A i \in (Len(calls) + 1)..Len(calls') :
                   LayerSpecific(calls'[i]) =>
                       CallTarget(calls'[i]) \in TargetsOf(PrepOrder[PosRank])]_vars
    /\ [][ppc = "raised" => prev' # prev]_vars
    /\ [][(ppc \in {"raster", "vector"} /\ ~LayerComplete(fs, PrepOrder[PosRank])) =>
             \/ calls' # calls
             \/ ppc' \in {"prep", "raised"}]_vars

\* The entries the remote tree below listing `node` has, placed under dest:
\* a pair <<path, kind>> per entry of type file or dir.
RECURSIVE RemoteEntries(_, _)
RemoteEntries(node, dest) ==
    UNION {LET it == Listing[node][i]
           IN  IF it.type = "file" THEN {<<PathJoin(dest, it.name), "file">>}
               ELSE IF it.type = "dir"
               THEN {<<PathJoin(dest, it.name), "dir">>}
                       \cup RemoteEntries(it.url, PathJoin(dest, it.name))
               ELSE {} : i \in DOMAIN Listing[node]}

\* The local tree below folder root: a pair <<path, kind>> per entry.
LocalEntries(f, root) == {<<p, f[p].kind>> : p \in {q \in DOMAIN f : Under(root, q) /\ q # root}}

\* The run is past the folder stage: download_github_folder returned.
MirrorReturned == apc \in {"dem", "done"}

\* C28: after download_github_folder returned normally into an initially
\* empty destination, the local tree under <raw_dir>/<dataset_id> holds
\* exactly one file per remote file entry and one directory per remote dir
\* entry, at the same relative path, and nothing for entries of other types.
C28_MirrorResult ==
    MirrorReturned =>
        /\ Has(fs, GitFolder(github_datasets[1]))
        /\ LocalEntries(fs, GitFolder(github_datasets[1]))
              = RemoteEntries("root", GitFolder(github_datasets[1]))

C28_Witness ==
    /\ apc = "dem"
    /\ fs[PathJoin(GitFolder(github_datasets[1]), <<"sub">>)].kind = "dir"
    /\ Has(fs, PathJoin(PathJoin(GitFolder(github_datasets[1]), <<"sub">>), <<"f2", ".tif">>))
    /\ Has(fs, PathJoin(GitFolder(github_datasets[1]), <<"f1", ".tif">>))
    /\ ~Has(fs, PathJoin(GitFolder(github_datasets[1]), <<"link">>))

\* The mirror is at an entry of type file that exists at its destination,
\* with overwrite false.
AtExistingFile ==
    /\ apc = "git"
    /\ mstack # <<>>
    /\ Top.i <= Len(Listing[Top.node])
    /\ TopItem.type = "file"
    /\ Has(fs, PathJoin(Top.dest, TopItem.name))
    /\ ~overwrite_git

\* The mirror is at an entry of type dir.
AtDirectory ==
    /\ apc = "git"
    /\ mstack # <<>>
    /\ Top.i <= Len(Listing[Top.node])
    /\ TopItem.type = "dir"

\* C29: with overwrite=false a file entry that exists at its destination is
\* neither downloaded nor modified and raises no error; the mirror goes on
\* with the next entry of the listing and recurses into every directory
\* entry, existing or not, so that after it returned every remote file is
\* present, the files found at the start still holding their content.
C29_SkipExisting ==
    /\ [][AtExistingFile =>
             /\ fs' = fs
             /\ dl' = dl
             /\ written' = written
             /\ aerr' = <<>>
             /\ apc' = "git"
             /\ Len(mstack') = Len(mstack)
             /\ mstack'[Len(mstack)].i = Top.i + 1]_vars
    /\ [][(AtDirectory /\ apc' # "raised") =>
             /\ Len(mstack') = Len(mstack) + 1
             /\ mstack'[Len(mstack')].dest = PathJoin(Top.dest, TopItem.name)
             /\ mstack'[Len(mstack')].i = 1]_vars
    /\ [](MirrorReturned =>
             LocalEntries(fs, GitFolder(github_datasets[1]))
                = RemoteEntries("root", GitFolder(github_datasets[1])))
    /\ [](~overwrite_git =>
             \A p \in {MirrorF1, MirrorF2} :
                (Has(fs, p) /\ fs[p].data = StaleData) => p \notin written)

C29_Witness ==
    /\ apc = "dem"
    /\ ~overwrite_git
    /\ fs[MirrorF1].data = StaleData
    /\ MirrorF1 \notin written
    /\ MirrorF2 \in written

\* C30: the folder mirror stores a file only if its download succeeded: an
\* HTTP error status for a file entry raises an error and writes no file, so
\* no file the mirror wrote holds the body of an error response.
C30_NoErrorBodyStored ==
    \A p \in written : Has(fs, p) => fs[p].data # ErrorBody

\* C31: when download_pacioos_dems returns normally, whatever .tif, .nc and
\* .nc.part files and overwrite flags it started from, every dataset of the
\* list has its .tif on disk and neither its .nc nor its .nc.part remains.
C31_DemEndState ==
    apc = "done" =>
        \A i \in DOMAIN pacioos_dem_dataset_ids :
           /\ Has(fs, TifPath(pacioos_dem_dataset_ids[i]))
           /\ ~Has(fs, NcPath(pacioos_dem_dataset_ids[i]))
           /\ ~Has(fs, part_path(NcPath(pacioos_dem_dataset_ids[i])))

\* C32: a call with overwrite=true on an existing destination whose attempts
\* all fail leaves the destination in place with its previous content when
\* the fatal error is raised; only the .part sidecar is written.
C32_FailedOverwriteKeepsDest ==
    /\ [][(overwrite /\ Exists(out_path) /\ fpc' # "done") =>
             /\ Has(fs', out_path)
             /\ fs'[out_path] = fs[out_path]]_vars
    /\ [][(overwrite /\ Exists(out_path) /\ fpc' # "done") =>
             \A p \in (DOMAIN fs \cup DOMAIN fs') \ {tmp_path} :
                Has(fs, p) /\ Has(fs', p) /\ fs'[p] = fs[p]]_vars
    /\ []((fpc = "raised" /\ overwrite /\ Exists(out_path)) =>
             fs[out_path].data = StaleData)

C32_Witness ==
    /\ fpc = "raised"
    /\ overwrite
    /\ retries >= 2
    /\ Len(requests) = retries
    /\ Exists(out_path)
    /\ fs[out_path].data = StaleData
    /\ Exists(tmp_path)
    /\ StatSize(tmp_path) > 0

\* The canonical output of layer k.
CanonicalOutput(k) ==
    IF k \in RASTER_KEYS THEN SubfolderTif(prepared_outputs[k])
    ELSE gpkg_layer_path(Gpkg, k)

\* Engine operation c reads or writes a dataset of layer k.
Concerns(c, k) ==
    \/ c.dst \in TargetsOf(k)
    \/ c.src \in TargetsOf(k) \cup {source_inputs[k]}

\* The layer whose gate the run is at.
GateLayer == PrepOrder[PosRank]

\* C33: whatever the value of overwrite, a layer that is complete is skipped
\* at its gate, no engine operation is performed for it and its prepared
\* output stays as it is; overwrite removes only scratch datasets of the
\* layer being prepared.
C33_OverwriteKeepsGate ==
    /\ [][\A k \in VectorKeys \cup {"rainfall"} :
             LayerComplete(fs, k) =>
                /\ Has(fs', CanonicalOutput(k))
                /\ fs'[CanonicalOutput(k)] = fs[CanonicalOutput(k)]
                /\ \A i \in (Len(calls) + 1)..Len(calls') : ~Concerns(calls'[i], k)]_vars
    /\ [][\A k \in {"dem", "watertable", "slope"} :
             LayerComplete(fs, k) =>
                /\ Has(fs', CanonicalOutput(k))
                /\ fs'[CanonicalOutput(k)] = fs[CanonicalOutput(k)]
                /\ \A i \in (Len(calls) + 1)..Len(calls') :
                      calls'[i].dst \notin TargetsOf(k) /\ calls'[i].src \notin TargetsOf(k)]_vars
    /\ [][(ppc \in {"raster", "vector"} /\ LayerComplete(fs, GateLayer)) =>
             /\ fs' = fs
             /\ calls' = calls
             /\ ppc' \notin {"prep", "raised"}
             /\ PosRank' = PosRank + 1]_vars
    /\ [](\A i \in DOMAIN calls :
             calls[i].op = "Delete" => ~Under(PreparedDir, calls[i].src))

C33_Witness ==
    /\ p_overwrite
    /\ prev # <<>>
    /\ ppc = "raised"
    /\ pidx = 2
    /\ LayerComplete(fs, "dem")
    /\ LayerComplete(fs, "parcels")
    /\ calls # <<>>
    /\ calls[1].dst = MosaicTmp("watertable")
    /\ Has(prev[1].fs, MosaicTmp("watertable"))

====
